---- MODULE Spec2Model ----
(***************************************************************************)
(* Model of the SMS-to-transaction-record parser (app/services/parser.py)  *)
(* and of its HTTP route (app/routes/expenses.py).                         *)
(*                                                                         *)
(* Texts are sequences of one-character strings.  Offsets are Python       *)
(* offsets (0-based): the character at offset p of t is t[p + 1] and the   *)
(* slice t[a:b] is Slice(t, a, b).  Regular expressions are data (a        *)
(* sequence of items) run by a backtracking matcher that returns the       *)
(* match Python's re returns: leftmost start, alternatives in order,       *)
(* greedy repetitions backing off one step at a time.                      *)
(***************************************************************************)
EXTENDS Integers, Sequences, FiniteSets, TLC

VARIABLES now, defaultTs, req, nlpMemo, resp, prev, draft, verdict

vars == <<now, defaultTs, req, nlpMemo, resp, prev, draft, verdict>>

(***************************************************************************)
(* Characters and Python str methods                                       *)
(***************************************************************************)
LowerSeq == <<"a","b","c","d","e","f","g","h","i","j","k","l","m","n","o","p","q","r","s","t","u","v","w","x","y","z">>
UpperSeq == <<"A","B","C","D","E","F","G","H","I","J","K","L","M","N","O","P","Q","R","S","T","U","V","W","X","Y","Z">>
DigitSeq == <<"0","1","2","3","4","5","6","7","8","9">>

Range(s) == {s[i] : i \in 1..Len(s)}

LowerCh == Range(LowerSeq)
UpperCh == Range(UpperSeq)
DigitCh == Range(DigitSeq)
AlphaCh == LowerCh \cup UpperCh
\* \s of the re module and str.isspace, on the characters of the model
SpaceCh == {" ", "\t", "\n", "\r"}
\* \w of the re module
WordCh == AlphaCh \cup DigitCh \cup {"_"}

IndexIn(s, c) == CHOOSE i \in 1..Len(s) : s[i] = c
LowerOf(c) == IF c \in UpperCh THEN LowerSeq[IndexIn(UpperSeq, c)] ELSE c
UpperOf(c) == IF c \in LowerCh THEN UpperSeq[IndexIn(LowerSeq, c)] ELSE c
DigitVal(c) == IndexIn(DigitSeq, c) - 1

Min(a, b) == IF a < b THEN a ELSE b
Max(a, b) == IF a > b THEN a ELSE b

\* str.lower() / str.upper()
Lower(t) == [i \in 1..Len(t) |-> LowerOf(t[i])]
Upper(t) == [i \in 1..Len(t) |-> UpperOf(t[i])]

\* t[a:b] for 0 <= a
Slice(t, a, b) == SubSeq(t, a + 1, Min(b, Len(t)))
\* t[a:]
SliceFrom(t, a) == SubSeq(t, a + 1, Len(t))

\* t.startswith(s, p)
StartsAt(t, p, s) ==
    /\ p + Len(s) <= Len(t)
    /\ \/ Len(s) = 0
       \/ /\ t[p + 1] = s[1]
          /\ SubSeq(t, p + 1, p + Len(s)) = s

\* s in t
Contains(t, s) == \E p \in 0..(Len(t) - Len(s)) : StartsAt(t, p, s)

\* the first i in lo..hi with P(i), 0 when there is none: a loop that stops at
\* its first hit
RECURSIVE FirstIndex(_, _, _)
FirstIndex(P(_), lo, hi) ==
    IF lo > hi THEN 0 ELSE IF P(lo) THEN lo ELSE FirstIndex(P, lo + 1, hi)

\* the least element of a non-empty set of integers
Least(S) == CHOOSE p \in S : \A q \in S : p <= q

\* t.find(s): the lowest offset, -1 when absent
Find(t, s) ==
    LET Lowest(at) == IF at = {} THEN -1 ELSE Least(at)
    IN Lowest({p \in 0..(Len(t) - Len(s)) : StartsAt(t, p, s)})

\* str.strip()
RECURSIVE LStrip(_)
LStrip(t) == IF Len(t) > 0 /\ t[1] \in SpaceCh THEN LStrip(Tail(t)) ELSE t
RECURSIVE RStrip(_)
RStrip(t) ==
    IF Len(t) > 0 /\ t[Len(t)] \in SpaceCh THEN RStrip(SubSeq(t, 1, Len(t) - 1)) ELSE t
Strip(t) == RStrip(LStrip(t))

\* str.split(): the maximal runs of non-whitespace characters, in order
RECURSIVE SplitFrom(_, _, _)
SplitFrom(t, p, cur) ==
    IF p >= Len(t) THEN (IF cur = <<>> THEN <<>> ELSE <<cur>>)
    ELSE IF t[p + 1] \in SpaceCh
         THEN (IF cur = <<>> THEN <<>> ELSE <<cur>>) \o SplitFrom(t, p + 1, <<>>)
         ELSE SplitFrom(t, p + 1, Append(cur, t[p + 1]))
Split(t) == SplitFrom(t, 0, <<>>)

\* " ".join(words)
RECURSIVE JoinSp(_)
JoinSp(ws) ==
    IF ws = <<>> THEN <<>>
    ELSE IF Len(ws) = 1 THEN ws[1]
    ELSE ws[1] \o <<" ">> \o JoinSp(Tail(ws))

\* str.capitalize(): first character upper-cased, the rest lower-cased
Capitalize(w) == [i \in 1..Len(w) |-> IF i = 1 THEN UpperOf(w[i]) ELSE LowerOf(w[i])]

\* str.title(): a letter is upper-cased when the character before it is not a
\* letter, lower-cased otherwise
Title(t) ==
    [i \in 1..Len(t) |->
        IF i = 1 \/ t[i - 1] \notin AlphaCh THEN UpperOf(t[i]) ELSE LowerOf(t[i])]

\* str.isdigit() on the characters of the model
IsDigits(t) == Len(t) > 0 /\ \A i \in 1..Len(t) : t[i] \in DigitCh

\* str.replace(c, "") for one character c
RemoveCh(t, c) == SelectSeq(t, LAMBDA x : x # c)

(***************************************************************************)
(* The re module: patterns as data, matched with backtracking              *)
(*                                                                         *)
(* A pattern is a sequence of items.  Lit(s) is a literal, Cls(S, m, n)    *)
(* the greedy repetition [S]{m,n}, NCls(S, m, n) the same for [^S], Alt    *)
(* an ordered alternation of patterns, Opt(p) is (?:p)?, Star(p) is        *)
(* (?:p)*, Grp(k, p) the capturing group number k, WordB is \b, Bol is ^   *)
(* and Eol is $.  With re.IGNORECASE the pattern is written in lower case  *)
(* and matched against the lower-cased text, which has the same offsets.   *)
(***************************************************************************)
Lit(s) == [t |-> "lit", s |-> s]
Cls(S, m, n) == [t |-> "cls", set |-> S, neg |-> FALSE, min |-> m, max |-> n]
NCls(S, m, n) == [t |-> "cls", set |-> S, neg |-> TRUE, min |-> m, max |-> n]
Alt(ps) == [t |-> "alt", ps |-> ps]
Opt(p) == [t |-> "alt", ps |-> <<p, <<>>>>]
Star(p) == [t |-> "star", p |-> p]
Grp(k, p) == [t |-> "grp", k |-> k, p |-> p]
GrpEnd(k, from) == [t |-> "end", k |-> k, from |-> from]
WordB == [t |-> "b"]
Bol == [t |-> "bol"]
Eol == [t |-> "eol"]

\* an upper bound standing for "unbounded" in a repetition
Unbounded == 1000

NoCaps == <<<<-1, -1>>, <<-1, -1>>, <<-1, -1>>>>
NoMatch == [ok |-> FALSE, start |-> -1, end |-> -1, caps |-> NoCaps]

InCls(it, c) == IF it.neg THEN c \notin it.set ELSE c \in it.set

\* how many characters from offset p on are in the class, at most it.max
RECURSIVE RunLen(_, _, _, _)
RunLen(it, t, p, n) ==
    IF n < it.max /\ p + n < Len(t) /\ InCls(it, t[p + n + 1])
    THEN RunLen(it, t, p, n + 1)
    ELSE n

\* \b at offset p: exactly one of the characters around p is a word character
AtWordB(t, p) ==
    LET before == p > 0 /\ t[p] \in WordCh
        after == p < Len(t) /\ t[p + 1] \in WordCh
    IN before # after

\* $ at offset p: the end of the text, or just before a final newline
AtEol(t, p) == p = Len(t) \/ (p = Len(t) - 1 /\ t[p + 1] = "\n")

\* the first of two attempts that matches; the second is made only when the
\* first fails
OrElse(r, other) == IF r.ok THEN r ELSE other

RECURSIVE ReFrom(_, _, _, _), ReCls(_, _, _, _, _, _), ReAlt(_, _, _, _, _, _)
\* the first way, in the matcher's order, to match the items at offset p
ReFrom(items, t, p, caps) ==
    IF items = <<>> THEN [ok |-> TRUE, start |-> -1, end |-> p, caps |-> caps]
    ELSE LET it == Head(items)
             rest == Tail(items)
         IN CASE it.t = "lit" ->
                    IF StartsAt(t, p, it.s) THEN ReFrom(rest, t, p + Len(it.s), caps)
                    ELSE NoMatch
              [] it.t = "cls" -> ReCls(it, rest, t, p, caps, RunLen(it, t, p, 0))
              [] it.t = "alt" -> ReAlt(it.ps, 1, rest, t, p, caps)
              [] it.t = "star" ->
                    OrElse(ReFrom(it.p \o <<it>> \o rest, t, p, caps), ReFrom(rest, t, p, caps))
              [] it.t = "grp" -> ReFrom(it.p \o <<GrpEnd(it.k, p)>> \o rest, t, p, caps)
              [] it.t = "end" ->
                    ReFrom(rest, t, p, [caps EXCEPT ![it.k] = <<it.from, p>>])
              [] it.t = "b" -> IF AtWordB(t, p) THEN ReFrom(rest, t, p, caps) ELSE NoMatch
              [] it.t = "bol" -> IF p = 0 THEN ReFrom(rest, t, p, caps) ELSE NoMatch
              [] it.t = "eol" -> IF AtEol(t, p) THEN ReFrom(rest, t, p, caps) ELSE NoMatch

\* a greedy class repetition: the longest run first, one character less on failure
ReCls(it, rest, t, p, caps, n) ==
    IF n < it.min THEN NoMatch
    ELSE OrElse(ReFrom(rest, t, p + n, caps), ReCls(it, rest, t, p, caps, n - 1))

\* an alternation: the alternatives in order
ReAlt(ps, i, rest, t, p, caps) ==
    IF i > Len(ps) THEN NoMatch
    ELSE OrElse(ReFrom(ps[i] \o rest, t, p, caps), ReAlt(ps, i + 1, rest, t, p, caps))

\* re.match(pattern, t) anchored at offset p
ReMatchAt(pat, t, p) ==
    LET From(r) == IF r.ok THEN [r EXCEPT !.start = p] ELSE NoMatch
    IN From(ReFrom(pat, t, p, NoCaps))

\* pattern.search(t) from offset p on: the match at the leftmost offset that has one
ReSearchFrom(pat, t, p) ==
    LET Leftmost(starts) == IF starts = {} THEN NoMatch ELSE ReMatchAt(pat, t, Least(starts))
    IN Leftmost({q \in p..Len(t) : ReFrom(pat, t, q, NoCaps).ok})

\* re.search(pattern, t)
ReSearch(pat, t) == ReSearchFrom(pat, t, 0)

\* match.group(k)
Group(t, m, k) == Slice(t, m.caps[k][1], m.caps[k][2])
\* match.group(0)
Group0(t, m) == Slice(t, m.start, m.end)

\* re.sub(pattern, repl, t): every non-overlapping match replaced, left to right
\* (the patterns of the program never match the empty string).  The matches
\* are found in m, which is t, or t lower-cased for re.IGNORECASE.
RECURSIVE ReSubFrom(_, _, _, _, _)
ReSubFrom(pat, repl, t, m, p) ==
    LET Replaced(r) ==
            IF ~r.ok THEN SliceFrom(t, p)
            ELSE Slice(t, p, r.start) \o repl \o ReSubFrom(pat, repl, t, m, r.end)
    IN Replaced(ReSearchFrom(pat, m, p))
ReSub(pat, repl, t) == ReSubFrom(pat, repl, t, t, 0)
ReSubI(pat, repl, t) == ReSubFrom(pat, repl, t, Lower(t), 0)

(***************************************************************************)
(* The pattern library                                                     *)
(***************************************************************************)
\* \d{1,3}(?:[.,]\d{3})*(?:[.,]\d{1,2})?  (the amount tail of the balance pattern and
\* the digit test of is_transactional_message)
GroupedNumber ==
    << Cls(DigitCh, 1, 3),
       Star(<<Cls({".", ","}, 1, 1), Cls(DigitCh, 3, 3)>>),
       Opt(<<Cls({".", ","}, 1, 1), Cls(DigitCh, 1, 2)>>) >>

\* the compiled patterns the program uses (amount, account, phone and email are
\* never read); all are compiled with re.IGNORECASE
FINANCIAL_PATTERNS ==
    [ reference |->
        << WordB,
           Alt(<< <<Lit(<<"r","e","f">>)>>, <<Lit(<<"t","x","n">>)>>, <<Lit(<<"t","r","a","n","s">>)>>, <<Lit(<<"u","p","i">>)>>,
                  <<Lit(<<"t","r","f">>)>>, <<Lit(<<"i","d">>)>>, <<Lit(<<"c","r","n">>)>>, <<Lit(<<"u","r","n">>)>> >>),
           Opt(<<Cls({":", "-"}, 1, 1)>>),
           Cls(SpaceCh, 0, Unbounded),
           Cls(LowerCh \cup DigitCh, 5, 20),
           WordB >>,
      balance |->
        << Alt(<< <<Lit(<<"b","a","l">>), Opt(<<Lit(<<"a","n","c","e">>)>>)>>,
                  <<Lit(<<"a","v","a","i","l">>), Opt(<<Lit(<<"a","b","l","e">>)>>)>> >>),
           Opt(<<Alt(<< <<Cls({":", "-"}, 1, 1)>>,
                        <<Cls(SpaceCh, 1, Unbounded), Lit(<<"o","f">>)>>,
                        <<Cls(SpaceCh, 1, Unbounded), Lit(<<"i","s">>)>> >>)>>),
           Cls(SpaceCh, 0, Unbounded),
           Opt(<<Grp(1, <<Alt(<< <<Lit(<<"r","s">>)>>, <<Lit(<<"i","n","r">>)>>, <<Lit(<<"u","s","d">>)>>,
                                 <<Lit(<<"a","e","d">>)>>, <<Lit(<<"e","u","r">>)>> >>)>>)>>),
           Cls(SpaceCh, 0, Unbounded),
           Grp(2, GroupedNumber) >>,
      date_compact |->
        << Grp(1, <<Cls(DigitCh, 1, 2)>>), Grp(2, <<Cls(LowerCh, 3, 3)>>),
           Grp(3, <<Cls(DigitCh, 2, 4)>>) >>,
      date_standard |->
        << Grp(1, <<Cls(DigitCh, 1, 2)>>), Cls({"-", "/", "."}, 1, 1),
           Grp(2, <<Cls(DigitCh, 1, 2)>>), Cls({"-", "/", "."}, 1, 1),
           Grp(3, <<Cls(DigitCh, 2, 4)>>) >>,
      date_verbose |->
        << Grp(1, <<Cls(DigitCh, 1, 2)>>), Cls(SpaceCh, 1, Unbounded),
           Grp(2, <<Cls(LowerCh, 3, 9)>>), Cls(SpaceCh, 1, Unbounded),
           Grp(3, <<Cls(DigitCh, 4, 4)>>) >>,
      transaction_indicators |->
        << WordB,
           Alt(<< <<Lit(<<"d","e","b","i","t","e","d">>)>>, <<Lit(<<"c","r","e","d","i","t","e","d">>)>>, <<Lit(<<"p","a","i","d">>)>>,
                  <<Lit(<<"s","e","n","t">>)>>, <<Lit(<<"r","e","c","e","i","v","e","d">>)>>, <<Lit(<<"t","r","a","n","s","f","e","r">>)>>,
                  <<Lit(<<"r","e","c","h","a","r","g","e">>)>>, <<Lit(<<"w","i","t","h","d","r","a","w","n">>)>>, <<Lit(<<"b","i","l","l","e","d">>)>>,
                  <<Lit(<<"u","t","i","l","i","z","e","d">>)>>, <<Lit(<<"c","h","a","r","g","e","d">>)>>, <<Lit(<<"r","e","p","a","y","m","e","n","t">>)>>,
                  <<Lit(<<"e","m","i">>)>>, <<Lit(<<"p","u","r","c","h","a","s","e">>)>> >>),
           WordB >> ]

\* pattern.search(text) for a pattern compiled with re.IGNORECASE
SearchI(pat, t) == ReSearch(pat, Lower(t))

\* TRANSACTION_CATEGORIES in declaration order (the order dict iteration follows).
\* has_context_phrases is '"context_phrases" in config'; each context phrase is the
\* regular expression of the source, written as a pattern.
TRANSACTION_CATEGORIES ==
    <<
      [ name |-> "loan",
        keywords |->
          << <<"l","o","a","n">>, <<"e","m","i">>, <<"e","q","u","a","t","e","d"," ","m","o","n","t","h","l","y"," ","i","n","s","t","a","l","l","m","e","n","t">>, <<"r","e","p","a","y","m","e","n","t">>,
             <<"d","i","s","b","u","r","s","e","m","e","n","t">>, <<"b","o","r","r","o","w">>, <<"l","e","n","d">>, <<"c","r","e","d","i","t"," ","l","i","m","i","t">>, <<"c","r","e","d","i","t"," ","l","i","n","e">>,
             <<"c","r","e","d","i","t"," ","s","c","o","r","e">>, <<"c","r","e","d","i","t","l","i","n","e">>, <<"p","r","e","-","a","p","p","r","o","v","e","d">>, <<"s","a","n","c","t","i","o","n","e","d">>,
             <<"b","o","r","r","o","w"," ","l","i","m","i","t">>, <<"l","o","a","n"," ","a","/","c">>, <<"l","o","a","n"," ","a","c","c","o","u","n","t">> >>,
        has_context_phrases |-> TRUE,
        context_phrases |->
          << <<Lit(<<"r","e","p","a","y">>), Cls(SpaceCh, 1, Unbounded), Opt(<<Alt(<< <<Lit(<<"r","s">>)>>, <<Lit(<<"i","n","r">>)>> >>)>>),
                 Cls(SpaceCh, 0, Unbounded), Cls(DigitCh, 1, Unbounded), Opt(<<Lit(<<".">>)>>),
                 Cls(DigitCh, 0, Unbounded)>>,
             <<Lit(<<"c","r","e","d","i","t">>), Cls(SpaceCh, 1, Unbounded), Lit(<<"s","c","o","r","e">>)>>,
             <<Lit(<<"s","l","i","c","e">>), Cls(SpaceCh, 1, Unbounded), Lit(<<"a","p","p">>)>>,
             <<Lit(<<"a","i","r","t","e","l">>), Cls(SpaceCh, 1, Unbounded), Lit(<<"b","l","a","c","k">>), Cls(SpaceCh, 1, Unbounded), Lit(<<"i","d">>)>>,
             <<Lit(<<"e","m","i">>), Cls(SpaceCh, 1, Unbounded), Lit(<<"f","o","r">>)>>,
             <<Lit(<<"d","u","e">>), Cls(SpaceCh, 1, Unbounded), Lit(<<"d","a","t","e">>)>> >>,
        exceptions |-> <<>> ],
      [ name |-> "credit",
        keywords |->
          << <<"c","r","e","d","i","t","e","d">>, <<"r","e","c","e","i","v","e","d">>, <<"l","o","a","d">>, <<"a","d","d","e","d">>, <<"t","o","p","p","e","d"," ","u","p">>,
             <<"d","e","p","o","s","i","t">>, <<"i","n","c","o","m","e">>, <<"s","a","l","a","r","y">>, <<"r","e","c","r","e","d","i","t","e","d">>, <<"r","e","f","u","n","d">>,
             <<"r","e","v","e","r","s","a","l">>, <<"c","a","s","h","b","a","c","k">>, <<"i","n","t","e","r","e","s","t">>, <<"b","o","n","u","s">>, <<"c","r","e","d","i","t">>,
             <<"r","e","i","m","b","u","r","s","e","d">>, <<"t","r","a","n","s","f","e","r"," ","r","e","c","e","i","v","e","d">>, <<"f","u","n","d","s"," ","a","d","d","e","d">>,
             <<"a","m","o","u","n","t"," ","c","r","e","d","i","t","e","d">>, <<"d","e","p","o","s","i","t"," ","s","u","c","c","e","s","s","f","u","l">> >>,
        has_context_phrases |-> FALSE,
        context_phrases |-> <<>>,
        exceptions |->
          << <<"r","e","v","e","r","s","a","l"," ","o","f"," ","c","r","e","d","i","t">>, <<"c","r","e","d","i","t"," ","c","a","r","d"," ","p","a","y","m","e","n","t">>, <<"c","r","e","d","i","t"," ","s","c","o","r","e">>,
             <<"c","r","e","d","i","t"," ","l","i","m","i","t">>, <<"c","r","e","d","i","t"," ","l","i","n","e">>, <<"c","r","e","d","i","t","l","i","n","e">> >> ],
      [ name |-> "debit",
        keywords |->
          << <<"d","e","b","i","t","e","d">>, <<"s","p","e","n","t">>, <<"w","i","t","h","d","r","a","w","n">>, <<"p","a","i","d">>, <<"s","e","n","t">>, <<"d","e","d","u","c","t","e","d">>,
             <<"p","u","r","c","h","a","s","e">>, <<"b","i","l","l","e","d">>, <<"u","s","e","d">>, <<"w","i","t","h","d","r","e","w">>, <<"t","r","a","n","s","f","e","r">>,
             <<"p","a","y","m","e","n","t">>, <<"u","t","i","l","i","z","e","d">>, <<"c","h","a","r","g","e","d">>, <<"r","e","v","e","r","s","a","l">>, <<"o","u","t","s","t","a","n","d","i","n","g">>,
             <<"m","i","n","i","m","u","m"," ","d","u","e">>, <<"p","a","s","t"," ","d","u","e">>, <<"o","v","e","r","d","u","e">>, <<"a","m","o","u","n","t"," ","d","e","b","i","t","e","d">>,
             <<"t","r","a","n","s","a","c","t","i","o","n"," ","s","u","c","c","e","s","s","f","u","l">> >>,
        has_context_phrases |-> FALSE,
        context_phrases |-> <<>>,
        exceptions |->
          << <<"r","e","v","e","r","s","a","l"," ","o","f"," ","d","e","b","i","t">>, <<"c","r","e","d","i","t"," ","c","a","r","d"," ","p","a","y","m","e","n","t">>, <<"e","m","i"," ","p","a","y","m","e","n","t">> >> ],
      [ name |-> "investment",
        keywords |->
          << <<"m","f">>, <<"m","u","t","u","a","l"," ","f","u","n","d">>, <<"s","i","p">>, <<"s","t","o","c","k">>, <<"e","q","u","i","t","y">>, <<"i","n","v","e","s","t","m","e","n","t">>,
             <<"p","o","r","t","f","o","l","i","o">>, <<"g","r","o","w","w">>, <<"c","o","i","n">>, <<"z","e","r","o","d","h","a">>, <<"u","p","s","t","o","x">>, <<"m","f"," ","r","e","d">>,
             <<"m","u","t","u","a","l","f","u","n","d">>, <<"i","n","v","e","s","t","m","e","n","t"," ","a","c","c","o","u","n","t">> >>,
        has_context_phrases |-> TRUE,
        context_phrases |->
          << <<Lit(<<"m","f">>), Cls(SpaceCh, 1, Unbounded), Lit(<<"i","n","v","e","s","t","m","e","n","t">>)>>,
             <<Lit(<<"s","i","p">>), Cls(SpaceCh, 1, Unbounded), Lit(<<"o","n">>)>>,
             <<Lit(<<"s","t","o","c","k">>), Cls(SpaceCh, 1, Unbounded), Lit(<<"p","u","r","c","h","a","s","e","d">>)>> >>,
        exceptions |-> <<>> ],
      [ name |-> "insurance",
        keywords |->
          << <<"i","n","s","u","r","a","n","c","e">>, <<"p","r","e","m","i","u","m">>, <<"p","o","l","i","c","y">>, <<"c","l","a","i","m">>, <<"r","e","n","e","w","a","l">>,
             <<"t","e","r","m"," ","p","l","a","n">>, <<"h","e","a","l","t","h"," ","i","n","s","u","r","a","n","c","e">>, <<"l","i","f","e"," ","i","n","s","u","r","a","n","c","e">>, <<"c","a","r"," ","i","n","s","u","r","a","n","c","e">>,
             <<"b","i","k","e"," ","i","n","s","u","r","a","n","c","e">> >>,
        has_context_phrases |-> FALSE,
        context_phrases |-> <<>>,
        exceptions |-> <<>> ],
      [ name |-> "emi",
        keywords |->
          << <<"e","m","i">>, <<"e","q","u","a","t","e","d"," ","m","o","n","t","h","l","y"," ","i","n","s","t","a","l","l","m","e","n","t">>, <<"i","n","s","t","a","l","l","m","e","n","t">>, <<"e","m","i"," ","p","a","y","m","e","n","t">>,
             <<"e","m","i"," ","d","u","e">>, <<"e","m","i"," ","p","r","o","c","e","s","s","e","d">>, <<"e","m","i"," ","d","e","b","i","t","e","d">> >>,
        has_context_phrases |-> TRUE,
        context_phrases |->
          << <<Lit(<<"e","m","i">>), Cls(SpaceCh, 1, Unbounded), Lit(<<"f","o","r">>), Cls(SpaceCh, 1, Unbounded), Cls(WordCh, 1, Unbounded)>>,
             <<Lit(<<"e","m","i">>), Cls(SpaceCh, 1, Unbounded), Lit(<<"p","r","o","c","e","s","s","e","d">>), Cls(SpaceCh, 1, Unbounded), Lit(<<"f","o","r">>)>> >>,
        exceptions |-> <<>> ],
      [ name |-> "recharge",
        keywords |->
          << <<"r","e","c","h","a","r","g","e">>, <<"t","o","p","u","p">>, <<"t","o","p","-","u","p">>, <<"v","a","l","i","d","i","t","y">>, <<"m","o","b","i","l","e"," ","r","e","c","h","a","r","g","e">>,
             <<"d","t","h"," ","r","e","c","h","a","r","g","e">>, <<"d","a","t","a"," ","p","a","c","k">>, <<"v","o","i","c","e"," ","p","l","a","n">>, <<"r","e","n","e","w","a","l">> >>,
        has_context_phrases |-> FALSE,
        context_phrases |-> <<>>,
        exceptions |-> <<>> ],
      [ name |-> "atm",
        keywords |->
          << <<"a","t","m">>, <<"c","a","s","h"," ","w","i","t","h","d","r","a","w","a","l">>, <<"c","a","s","h"," ","w","i","t","h","d","r","a","w">>, <<"w","i","t","h","d","r","a","w","n"," ","a","t"," ","a","t","m">>,
             <<"a","t","m"," ","t","r","a","n","s","a","c","t","i","o","n">>, <<"a","t","m"," ","w","i","t","h","d","r","a","w","a","l">> >>,
        has_context_phrases |-> FALSE,
        context_phrases |-> <<>>,
        exceptions |-> <<>> ],
      [ name |-> "cheque",
        keywords |->
          << <<"c","h","e","q","u","e">>, <<"c","h","e","c","k">>, <<"c","h","e","q","u","e"," ","d","e","p","o","s","i","t">>, <<"c","h","e","q","u","e"," ","c","l","e","a","r","e","d">>,
             <<"c","h","e","q","u","e"," ","b","o","u","n","c","e">>, <<"c","h","e","q","u","e"," ","i","s","s","u","e","d">> >>,
        has_context_phrases |-> FALSE,
        context_phrases |-> <<>>,
        exceptions |-> <<>> ],
      [ name |-> "informational",
        keywords |->
          << <<"b","a","l","a","n","c","e">>, <<"f","u","n","d"," ","b","a","l","a","n","c","e">>, <<"s","e","c","u","r","i","t","y"," ","b","a","l","a","n","c","e">>, <<"p","o","r","t","f","o","l","i","o">>,
             <<"u","p","d","a","t","e">>, <<"n","o","t","i","f","i","c","a","t","i","o","n">>, <<"a","l","e","r","t">>, <<"r","e","m","i","n","d","e","r">>, <<"p","r","o","m","o","t","i","o","n","a","l">>,
             <<"o","f","f","e","r">>, <<"d","e","a","l">>, <<"p","r","i","c","e">>, <<"r","a","t","e">>, <<"b","u","y">>, <<"s","e","l","l">>,
             <<"i","n","v","e","s","t","m","e","n","t"," ","o","p","p","o","r","t","u","n","i","t","y">>, <<"m","a","r","k","e","t"," ","u","p","d","a","t","e">> >>,
        has_context_phrases |-> FALSE,
        context_phrases |-> <<>>,
        exceptions |->
          << <<"d","e","b","i","t","e","d">>, <<"c","r","e","d","i","t","e","d">>, <<"p","a","i","d">>, <<"s","e","n","t">>, <<"r","e","c","e","i","v","e","d">>, <<"t","r","a","n","s","f","e","r">>,
             <<"r","e","c","h","a","r","g","e">>, <<"w","i","t","h","d","r","a","w","n">>, <<"b","i","l","l","e","d">>, <<"u","t","i","l","i","z","e","d">>, <<"c","h","a","r","g","e","d">>,
             <<"r","e","p","a","y","m","e","n","t">>, <<"e","m","i">> >> ]
    >>

\* TRANSACTION_CATEGORIES["loan"]["providers"]: provider -> aliases, in declaration order
LOAN_PROVIDERS ==
    <<
      [ provider |-> <<"s","l","i","c","e">>, aliases |-> << <<"s","l","i","c","e">>, <<"p","l","u","x","e","e">> >> ],
      [ provider |-> <<"a","i","r","t","e","l">>, aliases |-> << <<"a","i","r","t","e","l"," ","b","l","a","c","k">>, <<"a","i","r","t","e","l"," ","p","a","y","m","e","n","t","s"," ","b","a","n","k">> >> ],
      [ provider |-> <<"h","d","f","c">>, aliases |-> << <<"h","d","f","c"," ","c","r","e","d","i","t">>, <<"h","d","f","c"," ","b","a","n","k"," ","c","r","e","d","i","t">> >> ],
      [ provider |-> <<"i","c","i","c","i">>, aliases |-> << <<"i","c","i","c","i"," ","c","r","e","d","i","t">>, <<"i","c","i","c","i"," ","b","a","n","k"," ","c","r","e","d","i","t">> >> ],
      [ provider |-> <<"k","o","t","a","k">>, aliases |-> << <<"k","o","t","a","k"," ","c","r","e","d","i","t">>, <<"k","o","t","a","k"," ","8","1","1">> >> ],
      [ provider |-> <<"c","r","e","d">>, aliases |-> << <<"c","r","e","d">>, <<"c","R","E","D">> >> ],
      [ provider |-> <<"l","a","z","y","P","a","y">>, aliases |-> << <<"l","a","z","y","p","a","y">>, <<"l","a","z","y"," ","p","a","y">> >> ],
      [ provider |-> <<"s","b","i">>, aliases |-> << <<"s","b","i"," ","c","r","e","d","i","t">>, <<"s","t","a","t","e"," ","b","a","n","k"," ","c","r","e","d","i","t">> >> ]
    >>

\* TRANSACTION_CATEGORIES["recharge"]["providers"]
RECHARGE_PROVIDERS ==
    << <<"a","i","r","t","e","l">>, <<"j","i","o">>, <<"v","i">>, <<"v","o","d","a","f","o","n","e">>, <<"i","d","e","a">>, <<"b","s","n","l">>, <<"r","e","l","i","a","n","c","e">> >>

\* TRANSACTION_CATEGORIES["insurance"]["providers"]
INSURANCE_PROVIDERS ==
    << <<"l","i","c">>, <<"b","h","a","r","t","i"," ","a","x","a">>, <<"h","d","f","c"," ","e","r","g","o">>, <<"i","c","i","c","i"," ","l","o","m","b","a","r","d">>, <<"t","a","t","a"," ","a","i","g">> >>

\* the set MERCHANT_BLACKLIST
MERCHANT_BLACKLIST ==
    { <<"b","a","n","k">>, <<"a","c","c","o","u","n","t">>, <<"a","/","c">>, <<"s","a","v","i","n","g","s">>, <<"c","u","r","r","e","n","t">>, <<"b","a","l","a","n","c","e">>,
       <<"a","v","a","i","l","a","b","l","e">>, <<"w","a","l","l","e","t">>, <<"u","p","i">>, <<"r","e","f","n","o">>, <<"r","e","f","e","r","e","n","c","e">>, <<"i","d">>, <<"u","s","e","r">>,
       <<"a","p","p">>, <<"d","e","t","a","i","l","s">>, <<"c","a","l","l">>, <<"i","f"," ","n","o","t">>, <<"n","o","t"," ","y","o","u">>, <<"p","l","e","a","s","e">>, <<"c","o","n","t","a","c","t">>,
       <<"c","u","s","t","o","m","e","r"," ","c","a","r","e">>, <<"m","o","b","i","l","e">>, <<"r","e","c","h","a","r","g","e">>, <<"v","a","l","i","d","i","t","y">>, <<"p","r","e","p","a","i","d">>,
       <<"p","o","s","t","p","a","i","d">>, <<"p","l","a","n">>, <<"t","r","a","n","s","a","c","t","i","o","n">>, <<"a","m","o","u","n","t">>, <<"r","s">>, <<"i","n","r">>, <<"u","s","d">>,
       <<"a","e","d">>, <<"e","u","r">>, <<"d","a","t","e">>, <<"t","i","m","e">>, <<"l","o","c","a","t","i","o","n">>, <<"t","e","r","m","i","n","a","l">>, <<"p","o","s">>,
       <<"c","a","r","d">>, <<"c","r","e","d","i","t">>, <<"d","e","b","i","t">>, <<"p","a","y","m","e","n","t">>, <<"t","r","a","n","s","f","e","r">>, <<"t","o">>, <<"f","r","o","m">>,
       <<"a","t">>, <<"o","n">>, <<"f","o","r">>, <<"y","o","u","r">>, <<"a","c","c">>, <<"x","x","x">>, <<"x","x">>, <<"x","x","x","x">>, <<"*","*","*","*">>,
       <<"c","a","r","d","n","u","m","b","e","r">>, <<"c","r","d">>, <<"c","r","d","n","o">>, <<"c","a","r","d","n","o">>, <<"c","a","r","d"," ","n","u","m","b","e","r">>, <<"c","v","v">>,
       <<"e","x","p","i","r","y">>, <<"e","x","p">>, <<"v","a","l","i","d">>, <<"t","h","r","u">>, <<"t","h","r","u"," ","d","a","t","e">>, <<"m","m","/","y","y">>, <<"t","h","a","n","k">>,
       <<"t","h","a","n","k","s">>, <<"r","e","g","a","r","d","s">>, <<"t","e","a","m">>, <<"b","a","n","k","i","n","g">>, <<"o","n","l","i","n","e">>, <<"s","m","s">>, <<"m","e","s","s","a","g","e">>,
       <<"a","l","e","r","t">>, <<"n","o","t","i","f","i","c","a","t","i","o","n">>, <<"s","e","r","v","i","c","e">>, <<"c","h","a","r","g","e","s">>, <<"f","u","n","d">>, <<"s","e","c","u","r","i","t","i","e","s">>,
       <<"b","a","l">>, <<"r","e","p","o","r","t","e","d">>, <<"e","x","c","l","u","d","e","s">> }

\* CURRENCY_CODES in declaration order: token -> code
CURRENCY_CODES ==
    << [token |-> <<"r","s">>, code |-> "INR"],
       [token |-> <<"i","n","r">>, code |-> "INR"],
       [token |-> <<"₹">>, code |-> "INR"],
       [token |-> <<"u","s","d">>, code |-> "USD"],
       [token |-> <<"$">>, code |-> "USD"],
       [token |-> <<"d","o","l","l","a","r","s">>, code |-> "USD"],
       [token |-> <<"a","e","d">>, code |-> "AED"],
       [token |-> <<"d","i","r","h","a","m","s">>, code |-> "AED"],
       [token |-> <<"e","u","r">>, code |-> "EUR"],
       [token |-> <<"€">>, code |-> "EUR"],
       [token |-> <<"e","u","r","o","s">>, code |-> "EUR"],
       [token |-> <<"g","b","p">>, code |-> "GBP"],
       [token |-> <<"£">>, code |-> "GBP"],
       [token |-> <<"p","o","u","n","d","s">>, code |-> "GBP"],
       [token |-> <<"s","g","d">>, code |-> "SGD"],
       [token |-> <<"s","i","n","g","a","p","o","r","e"," ","d","o","l","l","a","r","s">>, code |-> "SGD"],
       [token |-> <<"j","p","y">>, code |-> "JPY"],
       [token |-> <<"¥">>, code |-> "JPY"],
       [token |-> <<"y","e","n">>, code |-> "JPY"] >>

(***************************************************************************)
(* The linguistic analyzer (spaCy's nlp), an external collaborator         *)
(*                                                                         *)
(* What nlp returns for a message is not decided by the program.  The      *)
(* model gives the analyzer one of a few behaviours per message, the same  *)
(* at every call for that message (the loaded pipeline is read-only):      *)
(*   fault    nlp(...) raises                                              *)
(*   verb     nlp(text_lower) has a token tagged VERB whose lemma is a     *)
(*            transaction verb                                             *)
(*   tokens   the tokens of nlp(text): [text, start, ent_type, like_num]   *)
(*   ents     the MONEY entities of nlp(text): [text, start_char]          *)
(*   chunk    the words of the noun chunk that is the object of a          *)
(*            transaction verb in nlp(text), <<>> when there is none       *)
(***************************************************************************)
NoFault == ""

\* the result of a call: a value, or the exception it raised
Ret(v) == [raised |-> FALSE, exc |-> NoFault, value |-> v]

\* text.replace(",", "").replace(".", "")
SansSeparators(w) == RemoveCh(RemoveCh(w, ","), ".")

\* token.like_num as the English language data of the analyzer computes it for a
\* token written in digits: an optional sign, then digits with , and . removed
LikeNum(w) ==
    LET u == IF Len(w) > 0 /\ w[1] \in {"+", "-", "~"} THEN Tail(w) ELSE w
    IN IsDigits(SansSeparators(u))

\* the whitespace-separated tokens of t with their start offsets
RECURSIVE WordsFrom(_, _)
WordsFrom(t, p) ==
    LET Word(n) == <<[text |-> Slice(t, p, p + n), start |-> p]>> \o WordsFrom(t, p + n)
    IN IF p >= Len(t) THEN <<>>
       ELSE IF t[p + 1] \in SpaceCh THEN WordsFrom(t, p + 1)
       ELSE Word(RunLen(NCls(SpaceCh, 0, Unbounded), t, p, 0))

\* a finer tokenization: a number (digits with , and . inside) is one token, a
\* run of letters is one token, every other character is a token of its own
NumberLike == <<Cls(DigitCh, 1, Unbounded), Star(<<Cls({".", ","}, 1, 1), Cls(DigitCh, 1, Unbounded)>>)>>
RECURSIVE PiecesFrom(_, _)
PiecesFrom(t, p) ==
    LET Piece(n) == <<[text |-> Slice(t, p, p + n), start |-> p]>> \o PiecesFrom(t, p + n)
    IN IF p >= Len(t) THEN <<>>
       ELSE IF t[p + 1] \in SpaceCh THEN PiecesFrom(t, p + 1)
       ELSE IF t[p + 1] \in DigitCh THEN Piece(ReMatchAt(NumberLike, t, p).end - p)
       ELSE IF t[p + 1] \in AlphaCh THEN Piece(RunLen(Cls(AlphaCh, 0, Unbounded), t, p, 0))
       ELSE Piece(1)

Labelled(ws, label) ==
    LET Token(w, like_num) ==
            [text |-> w.text, start |-> w.start, like_num |-> like_num,
             ent_type |-> IF like_num THEN label ELSE ""]
    IN [i \in 1..Len(ws) |-> Token(ws[i], LikeNum(ws[i].text))]

MoneyEnts(toks) ==
    LET Ents(m) == [i \in 1..Len(m) |-> [text |-> m[i].text, start_char |-> m[i].start]]
    IN Ents(SelectSeq(toks, LAMBDA k : k.ent_type = "MONEY"))

LastWord(t) ==
    LET Last(ws) == IF ws = <<>> THEN <<>> ELSE <<ws[Len(ws)]>>
    IN Last(Split(t))

\* the analyzer behaviours the model explores
NlpModes == {"plain", "money", "dated", "failing"}

Analyze(mode, t) ==
    LET Doc(toks) ==
            [ fault |-> mode = "failing",
              verb |-> mode = "money" /\ toks # <<>>,
              tokens |-> toks,
              ents |-> MoneyEnts(toks),
              chunk |-> IF mode = "money" THEN LastWord(t) ELSE <<>> ]
    IN Doc(CASE mode = "money" -> Labelled(PiecesFrom(t, 0), "MONEY")
             [] mode = "dated" -> Labelled(WordsFrom(t, 0), "DATE")
             [] OTHER -> Labelled(WordsFrom(t, 0), ""))

(***************************************************************************)
(* The transaction classifier                                              *)
(***************************************************************************)
\* any(s in t for s in needles)
ContainsAny(t, needles) == \E i \in 1..Len(needles) : Contains(t, needles[i])

\* any(re.search(pattern, t) for pattern in patterns)
SearchAny(t, patterns) == \E i \in 1..Len(patterns) : ReSearch(patterns[i], t).ok

\* step 3 of is_transactional_message: an indicator whose first occurrence is
\* followed within 30 characters by a digit group
AMOUNT_INDICATORS ==
    << <<"b","y">>, <<"o","f">>, <<"f","o","r">>, <<"r","s">>, <<"i","n","r">>, <<"a","m","o","u","n","t">>, <<"c","h","a","r","g","e","d">> >>

ContextWindow == 30

IndicatorWithAmount(text_lower, indicator) ==
    LET After(found) ==
            LET pos == found + Len(indicator)
            IN /\ found >= 0
               /\ pos < Len(text_lower)
               /\ ReSearch(GroupedNumber, Slice(text_lower, pos, pos + ContextWindow)).ok
    IN After(Find(text_lower, indicator))

\* is_transactional_message(text): [raised, exc, value]; the analyzer is only
\* reached when no explicit transaction indicator is present
is_transactional_message(text, an) ==
    LET Decide(text_lower) ==
            IF ReSearch(FINANCIAL_PATTERNS.transaction_indicators, text_lower).ok
            THEN Ret(TRUE)
            ELSE IF an.fault
            THEN [raised |-> TRUE, exc |-> "AnalyzerError", value |-> FALSE]
            ELSE IF an.verb THEN Ret(TRUE)
            ELSE IF \E i \in 1..Len(AMOUNT_INDICATORS) :
                        IndicatorWithAmount(text_lower, AMOUNT_INDICATORS[i])
            THEN Ret(TRUE)
            ELSE IF ReSearch(FINANCIAL_PATTERNS.reference, text_lower).ok THEN Ret(TRUE)
            ELSE Ret(FALSE)
    IN Decide(Lower(text))

\* text_lower of detect_category: punctuation to spaces, whitespace runs to one
\* space, stripped
Normalize(text) ==
    Strip(ReSub(<<Cls(SpaceCh, 1, Unbounded)>>, <<" ">>,
                ReSub(<<NCls(WordCh \cup SpaceCh, 1, 1)>>, <<" ">>, Lower(text))))

BASIC_CATEGORIES == {"credit", "debit", "informational"}

Config(name) ==
    TRANSACTION_CATEGORIES[
        FirstIndex(LAMBDA j : TRANSACTION_CATEGORIES[j].name = name, 1, Len(TRANSACTION_CATEGORIES))]

Category(c, s, conf, rule) ==
    [category |-> c, subcategory |-> s, confidence |-> conf, rule |-> rule]

\* the provider loop: the first provider, in table order, one of whose aliases is in t
HasAlias(t, i) == ContainsAny(t, LOAN_PROVIDERS[i].aliases)
FirstProvider(t) ==
    LET Provider(i) == IF i = 0 THEN <<>> ELSE LOAN_PROVIDERS[i].provider
    IN Provider(FirstIndex(LAMBDA i : HasAlias(t, i), 1, Len(LOAN_PROVIDERS)))

\* the body of "if kw in text_lower:" in the specialized scan (step 2): with
\* context phrases configured and one matching, the provider or 0.90 return;
\* in every other case control reaches the 0.85 return
ScanHit(config, t) ==
    LET Loan(provider) ==
            IF provider # <<>> THEN Category(config.name, provider, 95, "scan_provider")
            ELSE Category(config.name, <<>>, 90, "scan_context")
    IN IF config.has_context_phrases /\ SearchAny(t, config.context_phrases)
       THEN IF config.name = "loan" THEN Loan(FirstProvider(t))
            ELSE Category(config.name, <<>>, 90, "scan_context")
       ELSE Category(config.name, <<>>, 85, "scan_keyword")

\* a scan that leaves the loan category to the re-check of step 3
ScannedExceptLoan(i, t) ==
    /\ TRANSACTION_CATEGORIES[i].name \notin BASIC_CATEGORIES \cup {"loan"}
    /\ ContainsAny(t, TRANSACTION_CATEGORIES[i].keywords)

\* step 2: the first category of the table, the basic ones skipped, with a
\* keyword in t
Scanned(i, t) ==
    /\ TRANSACTION_CATEGORIES[i].name \notin BASIC_CATEGORIES
    /\ ContainsAny(t, TRANSACTION_CATEGORIES[i].keywords)

NoCategory == Category("", <<>>, 0, "none")

SpecializedScan(t) ==
    LET Hit(i) == IF i = 0 THEN NoCategory ELSE ScanHit(TRANSACTION_CATEGORIES[i], t)
    IN Hit(FirstIndex(LAMBDA i : Scanned(i, t), 1, Len(TRANSACTION_CATEGORIES)))

\* step 3: the loan re-check
LoanRecheck(t) ==
    LET Loan(provider) ==
            IF provider # <<>> THEN Category("loan", provider, 95, "recheck_provider")
            ELSE Category("loan", <<"g","e","n","e","r","i","c">>, 90, "recheck")
    IN IF /\ ContainsAny(t, Config("loan").keywords)
          /\ SearchAny(t, Config("loan").context_phrases)
       THEN Loan(FirstProvider(t))
       ELSE NoCategory

\* step 4: credit indicators
CreditScan(t) ==
    IF /\ ContainsAny(t, Config("credit").keywords)
       /\ ~ContainsAny(t, Config("credit").exceptions)
    THEN IF Contains(t, <<"e","m","i">>) /\ Contains(t, <<"c","r","e","d","i","t">>)
         THEN Category("emi", <<"c","r","e","d","i","t">>, 85, "credit_emi")
         ELSE Category("credit", <<>>, 80, "credit")
    ELSE NoCategory

\* step 5: debit indicators
DebitScan(t) ==
    IF /\ ContainsAny(t, Config("debit").keywords)
       /\ ~ContainsAny(t, Config("debit").exceptions)
    THEN IF Contains(t, <<"e","m","i">>) THEN Category("emi", <<"d","e","b","i","t">>, 85, "debit_emi")
         ELSE IF Contains(t, <<"u","p","i">>) THEN Category("debit", <<"u","p","i">>, 80, "debit_upi")
         ELSE IF Contains(t, <<"a","t","m">>) THEN Category("debit", <<"a","t","m">>, 80, "debit_atm")
         ELSE IF Contains(t, <<"p","o","s">>) \/ Contains(t, <<"s","w","i","p","e">>)
              THEN Category("debit", <<"p","o","s">>, 80, "debit_pos")
         ELSE Category("debit", <<"g","e","n","e","r","a","l">>, 75, "debit")
    ELSE NoCategory

\* the first step, in order, that returns
Returning(found, later) == IF found.rule # "none" THEN found ELSE later

\* detect_category(text): [raised, exc, value]; value is (category, subcategory,
\* confidence in hundredths) with the rule that returned it; a subcategory is a
\* character sequence
detect_category(text, an) ==
    LET Steps(text_lower) ==
            Returning(SpecializedScan(text_lower),
            Returning(LoanRecheck(text_lower),
            Returning(CreditScan(text_lower),
            Returning(DebitScan(text_lower),
                      Category("debit", <<"g","e","n","e","r","a","l">>, 70, "fallback")))))
        Gated(gate) ==
            IF gate.raised THEN [raised |-> TRUE, exc |-> gate.exc, value |-> NoCategory]
            ELSE IF ~gate.value THEN Ret(Category("informational", <<"g","e","n","e","r","a","l">>, 95, "gate"))
            ELSE Ret(Steps(Normalize(text)))
    IN Gated(is_transactional_message(text, an))

(***************************************************************************)
(* Numbers: float(s) of a digit string                                     *)
(*                                                                         *)
(* A value is [int, frac, neg]: the digits of the integer part without     *)
(* leading zeros ("0" for none), the decimal digits without trailing       *)
(* zeros, and whether the text has a minus sign.  float(s) is the double   *)
(* nearest to that decimal, ties to the even significand; the value stands *)
(* for that double, which Nearest computes exactly: the bits of the        *)
(* integer part by halving its decimal digits, the bits of the fraction by *)
(* doubling its decimal digits, MANT_DIG significant bits kept.            *)
(***************************************************************************)
RECURSIVE DropLeadingZeros(_)
DropLeadingZeros(ds) ==
    IF Len(ds) > 1 /\ ds[1] = "0" THEN DropLeadingZeros(Tail(ds)) ELSE ds
RECURSIVE DropTrailingZeros(_)
DropTrailingZeros(ds) ==
    IF Len(ds) > 0 /\ ds[Len(ds)] = "0"
    THEN DropTrailingZeros(SubSeq(ds, 1, Len(ds) - 1)) ELSE ds

\* int(ds) for a string of digits
RECURSIVE IntOf(_, _)
IntOf(ds, acc) == IF ds = <<>> THEN acc ELSE IntOf(Tail(ds), 10 * acc + DigitVal(ds[1]))
ToInt(ds) == IntOf(ds, 0)

\* str(n) for n >= 0
RECURSIVE DigitsOf(_)
DigitsOf(n) ==
    IF n < 10 THEN <<DigitSeq[n + 1]>> ELSE Append(DigitsOf(n \div 10), DigitSeq[(n % 10) + 1])

Zero == [int |-> <<"0">>, frac |-> <<>>, neg |-> FALSE]

\* s without its sign
Unsigned(s) == IF Len(s) > 0 /\ s[1] \in {"+", "-"} THEN Tail(s) ELSE s

\* whether float(s) succeeds for s made of digits, dots and an optional sign
FloatOk(s) ==
    LET Ok(u) ==
            /\ \A i \in 1..Len(u) : u[i] \in DigitCh \cup {"."}
            /\ \E i \in 1..Len(u) : u[i] \in DigitCh
            /\ Len(SelectSeq(u, LAMBDA c : c = ".")) <= 1
    IN Ok(Unsigned(s))

\* float(s) when FloatOk(s)
Float(s) ==
    LET Value(int, frac) ==
            [int |-> IF int = <<>> THEN <<"0">> ELSE DropLeadingZeros(int),
             frac |-> DropTrailingZeros(frac),
             neg |-> Len(s) > 0 /\ s[1] = "-"]
        Cut(u, dot) ==
            IF dot = -1 THEN Value(u, <<>>)
            ELSE Value(Slice(u, 0, dot), SliceFrom(u, dot + 1))
        Parts(u) == Cut(u, Find(u, <<".">>))
    IN Parts(Unsigned(s))

\* sys.float_info of the double
MANT_DIG == 53
MAX_EXP == 1024
MIN_EXP == -1021

\* digit characters as numbers and back
DigitVals(cs) == SubSeq([i \in 1..Len(cs) |-> DigitVal(cs[i])], 1, Len(cs))
DigitChars(ds) == SubSeq([i \in 1..Len(ds) |-> DigitSeq[ds[i] + 1]], 1, Len(ds))

RECURSIVE BitLength(_)
BitLength(n) == IF n = 0 THEN 0 ELSE 1 + BitLength(n \div 2)

\* the number a sequence of bits writes
RECURSIVE ValueOf(_)
ValueOf(bits) ==
    IF bits = <<>> THEN 0
    ELSE 2 * ValueOf(SubSeq(bits, 1, Len(bits) - 1)) + bits[Len(bits)]

AllZero(ds) == \A i \in 1..Len(ds) : ds[i] = 0
Zeros(n) == SubSeq([i \in 1..n |-> 0], 1, n)

\* the decimal digits of n \div 2 for the digits of n, as many as n has
HalvedDigits(ds) ==
    SubSeq([i \in 1..Len(ds) |->
               ((IF i > 1 THEN 10 * (ds[i - 1] % 2) ELSE 0) + ds[i]) \div 2],
           1, Len(ds))

\* the next `left` binary digits of the integer e.rest, from the lowest on,
\* put before the bits of e; rest becomes what is above them
RECURSIVE LowBits(_, _)
LowBits(e, left) ==
    IF left = 0 THEN e
    ELSE IF AllZero(e.rest) THEN e
    ELSE IF left = 1
         THEN [bits |-> <<e.rest[Len(e.rest)] % 2>> \o e.bits, rest |-> HalvedDigits(e.rest)]
    ELSE LowBits(LowBits(e, left \div 2), left - left \div 2)

\* the binary digits of the integer with the decimal digits ds, none for 0:
\* at most 4 for each decimal digit
IntBits(ds) == LowBits([bits |-> <<>>, rest |-> ds], 4 * Len(ds)).bits

\* the decimal digits of the fraction 0.ds doubled, the carry out dropped
DoubledDigits(ds) ==
    SubSeq([i \in 1..Len(ds) |->
               (2 * ds[i] + (IF i < Len(ds) /\ ds[i + 1] >= 5 THEN 1 ELSE 0)) % 10],
           1, Len(ds))

\* the next `left` binary digits of 0.rest appended to the bits of e; rest
\* becomes what follows them, as decimal digits
RECURSIVE NextBits(_, _)
NextBits(e, left) ==
    IF left = 0 THEN e
    ELSE IF AllZero(e.rest) THEN [bits |-> e.bits \o Zeros(left), rest |-> e.rest]
    ELSE IF left = 1
         THEN [bits |-> Append(e.bits, IF e.rest[1] >= 5 THEN 1 ELSE 0),
               rest |-> DoubledDigits(e.rest)]
    ELSE NextBits(NextBits(e, left \div 2), left - left \div 2)

\* the zero binary digits 0.rest starts with, rest not all zero: at most 4 for
\* each leading zero of the decimal and 3 more
LeadingZeros(e) ==
    LET First(b) == Least({i \in 1..Len(b) : b[i] = 1}) - 1
        Lead(ds) == Least({i \in 1..Len(ds) : ds[i] # 0}) - 1
    IN First(NextBits(e, 4 * Lead(e.rest) + 4).bits)

\* the binary digits of 0.ds: `left` of them, counted from the first 1 when
\* started is FALSE and then no further than the last place of a subnormal;
\* rest is what follows the last of them, as decimal digits
BinaryDigits(ds, left, started) ==
    LET From(e) ==
            IF started THEN NextBits(e, left)
            ELSE IF AllZero(ds) THEN e
            ELSE NextBits(e, Min(left + LeadingZeros(e), MANT_DIG - MIN_EXP))
    IN From([bits |-> <<>>, rest |-> ds])

\* 0.rest against one half: 1 above, 0 equal, -1 below
AgainstHalf(rest) ==
    IF rest = <<>> \/ rest[1] < 5 THEN -1
    ELSE IF rest[1] > 5 \/ ~AllZero(Tail(rest)) THEN 1
    ELSE 0

\* the bits dropped from an integer part, with the fraction 0.frac after them,
\* against one half of the last place kept
DroppedAgainstHalf(dropped, frac) ==
    IF dropped = <<>> THEN AgainstHalf(frac)
    ELSE IF dropped[1] = 0 THEN -1
    ELSE IF ~AllZero(Tail(dropped)) \/ ~AllZero(frac) THEN 1
    ELSE 0

\* bits + 1 in the last place; carry when it overflows into the place before
Incremented(bits) ==
    LET Set(k) ==
            [carry |-> k = 0,
             bits |-> SubSeq([i \in 1..Len(bits) |->
                                 IF i < k THEN bits[i] ELSE IF i = k THEN 1 ELSE 0],
                             1, Len(bits))]
        Zero0 == {i \in 1..Len(bits) : bits[i] = 0}
    IN Set(IF Zero0 = {} THEN 0 ELSE CHOOSE k \in Zero0 : \A j \in Zero0 : j <= k)

\* what float(s) is for a decimal of MAX_EXP bits or more after rounding
Infinity == [inf |-> TRUE, int |-> <<>>, frac |-> <<>>]

\* the magnitude of the double nearest to v: the bits of its integer part and
\* of its fraction
Nearest(v) ==
    LET Made(int, frac) ==
            IF Len(int) > MAX_EXP THEN Infinity
            ELSE [inf |-> FALSE, int |-> int, frac |-> frac]
        \* r is the rounded significand: its first n bits and `dropped` zeros
        \* are the integer part
        Placed(r, n, dropped) ==
            Made((IF r.carry THEN <<1>> ELSE <<>>) \o SubSeq(r.bits, 1, n) \o Zeros(dropped),
                 SubSeq(r.bits, n + 1, Len(r.bits)))
        Rounded(sig, n, dropped, half) ==
            IF half = 1 \/ (half = 0 /\ sig[Len(sig)] = 1)
            THEN Placed(Incremented(sig), n, dropped)
            ELSE Placed([carry |-> FALSE, bits |-> sig], n, dropped)
        Large(int, frac) ==
            Rounded(SubSeq(int, 1, MANT_DIG), MANT_DIG, Len(int) - MANT_DIG,
                    DroppedAgainstHalf(SubSeq(int, MANT_DIG + 1, Len(int)), frac))
        Small(int, e) == Rounded(int \o e.bits, Len(int), 0, AgainstHalf(e.rest))
        Of(int, frac) ==
            IF Len(int) >= MANT_DIG THEN Large(int, frac)
            ELSE Small(int, BinaryDigits(frac, MANT_DIG - Len(int), int # <<>>))
    IN Of(IntBits(DigitVals(v.int)), DigitVals(v.frac))

MIN_AMOUNT == 1
MAX_AMOUNT == 10000000

\* n <= x and x <= n for a double x and an integer n
AtLeast(x, n) == x.inf \/ Len(x.int) > BitLength(n) \/ ValueOf(x.int) >= n
AtMost(x, n) ==
    /\ ~x.inf
    /\ Len(x.int) <= BitLength(n)
    /\ \/ ValueOf(x.int) < n
       \/ ValueOf(x.int) = n /\ AllZero(x.frac)

\* a variant of the range test without the upper limit: 1 <= amount
InRangeNoCeiling(v) == ~v.neg /\ AtLeast(Nearest(v), MIN_AMOUNT)

\* 1 <= amount <= 10_000_000, a comparison of doubles
InRange(v) ==
    LET Within(x) == AtLeast(x, MIN_AMOUNT) /\ AtMost(x, MAX_AMOUNT)
    IN ~v.neg /\ Within(Nearest(v))

\* the decimal digits of 2n + b for the digits of n, none for 0
DoubledWhole(ds, b) ==
    LET Twice(x) ==
            SubSeq([i \in 1..Len(x) |->
                       (2 * x[i] + (IF i < Len(x) THEN (IF x[i + 1] >= 5 THEN 1 ELSE 0) ELSE b))
                       % 10],
                   1, Len(x))
        Trimmed(y) == IF y[1] = 0 THEN Tail(y) ELSE y
    IN Trimmed(Twice(<<0>> \o ds))

\* the next `left` of the bits, from e.at on, taken into the decimal digits
\* of the integer they write
RECURSIVE WholeDigits(_, _, _)
WholeDigits(bits, e, left) ==
    IF left = 0 THEN e
    ELSE IF e.at > Len(bits) THEN e
    ELSE IF left = 1
         THEN [digits |-> DoubledWhole(e.digits, bits[e.at]), at |-> e.at + 1]
    ELSE WholeDigits(bits, WholeDigits(bits, e, left \div 2), left - left \div 2)

\* the decimal digits of the integer the bits write, none for 0
WholeOf(bits) == WholeDigits(bits, [digits |-> <<>>, at |-> 1], Len(bits)).digits

\* the decimal digits of (b + 0.ds) / 2, one more than ds has
HalvedFraction(ds, b) ==
    SubSeq([i \in 1..(Len(ds) + 1) |->
               (10 * (IF i = 1 THEN b ELSE ds[i - 1] % 2) + (IF i <= Len(ds) THEN ds[i] ELSE 0))
               \div 2],
           1, Len(ds) + 1)

\* the next `left` of the bits, from e.at down, taken into the decimal digits
\* of the fraction they write
RECURSIVE FractionDigits(_, _, _)
FractionDigits(bits, e, left) ==
    IF left = 0 THEN e
    ELSE IF e.at = 0 THEN e
    ELSE IF left = 1
         THEN [digits |-> HalvedFraction(e.digits, bits[e.at]), at |-> e.at - 1]
    ELSE FractionDigits(bits, FractionDigits(bits, e, left \div 2), left - left \div 2)

\* the decimal digits of the fraction the bits write, as many as it has bits
\* up to its last 1
FractionOf(bits) ==
    LET Ones == {i \in 1..Len(bits) : bits[i] = 1}
        Upto(n) == FractionDigits(bits, [digits |-> <<>>, at |-> n], n).digits
    IN IF Ones = {} THEN <<>> ELSE Upto(CHOOSE i \in Ones : \A j \in Ones : j <= i)

\* the decimal digits of n + 1 for the digits of n
Succ(ds) ==
    LET Set(k) ==
            (IF k = 0 THEN <<1>> ELSE <<>>)
            \o SubSeq([i \in 1..Len(ds) |->
                          IF i < k THEN ds[i] ELSE IF i = k THEN ds[i] + 1 ELSE 0],
                      1, Len(ds))
        Low == {i \in 1..Len(ds) : ds[i] # 9}
    IN Set(IF Low = {} THEN 0 ELSE CHOOSE k \in Low : \A j \in Low : j <= k)

\* thousands separators
RECURSIVE Grouped(_)
Grouped(ds) ==
    IF Len(ds) <= 3 THEN ds
    ELSE Grouped(SubSeq(ds, 1, Len(ds) - 3)) \o <<",">> \o SubSeq(ds, Len(ds) - 2, Len(ds))

\* the value rounded to hundredths as "%.2f" rounds the double: to the nearest,
\* and to the even hundredth when the double is exactly half way; [inf, int,
\* cents] with int the digits of the integer part
Hundredths(v) ==
    LET d(ds, i) == IF i <= Len(ds) THEN ds[i] ELSE 0
        Shown(whole) == IF whole = <<>> THEN <<"0">> ELSE DigitChars(whole)
        Cents(whole, c) ==
            [inf |-> FALSE, int |-> Shown(IF c = 100 THEN Succ(whole) ELSE whole),
             cents |-> c % 100]
        RoundedBy(whole, ds, half) ==
            Cents(whole, 10 * d(ds, 1) + d(ds, 2)
                         + (IF half = 1 \/ (half = 0 /\ d(ds, 2) % 2 = 1) THEN 1 ELSE 0))
        Decimal(whole, ds) == RoundedBy(whole, ds, AgainstHalf(SubSeq(ds, 3, Len(ds))))
        Of(x) ==
            IF x.inf THEN [inf |-> TRUE, int |-> <<>>, cents |-> 0]
            ELSE Decimal(WholeOf(x.int), FractionOf(x.frac))
    IN Of(Nearest(v))

\* f"{amount:,.2f}"
Format2f(v) ==
    LET Shown(h) ==
            IF h.inf THEN <<"i","n","f">>
            ELSE Grouped(h.int) \o <<".">>
                 \o <<DigitSeq[(h.cents \div 10) + 1], DigitSeq[(h.cents % 10) + 1]>>
    IN (IF v.neg THEN <<"-">> ELSE <<>>) \o Shown(Hundredths(v))

(***************************************************************************)
(* The amount extractor                                                    *)
(***************************************************************************)
TRANSACTION_INDICATORS ==
    << <<"b","y">>, <<"o","f">>, <<"f","o","r">>, <<"r","s">>, <<"i","n","r">>, <<"a","m","o","u","n","t">>, <<"c","h","a","r","g","e","d">>, <<"d","e","b","i","t","e","d">>,
       <<"c","r","e","d","i","t","e","d">> >>

\* (\d{1,3}(?:,\d{3})*(?:\.\d{1,2})?|\d+\.\d{1,2}|\d+)
CONTEXT_AMOUNT_PATTERN ==
    << Grp(1, <<Alt(<<
          << Cls(DigitCh, 1, 3), Star(<<Lit(<<",">>), Cls(DigitCh, 3, 3)>>),
             Opt(<<Lit(<<".">>), Cls(DigitCh, 1, 2)>>) >>,
          << Cls(DigitCh, 1, Unbounded), Lit(<<".">>), Cls(DigitCh, 1, 2) >>,
          << Cls(DigitCh, 1, Unbounded) >> >>)>>) >>

\* (?:rs\.?\s*|inr\s*)(\d{1,3}(?:,\d{3})*(?:\.\d{1,2})?)\b
PREFIXED_AMOUNT_PATTERN ==
    << Alt(<< <<Lit(<<"r","s">>), Opt(<<Lit(<<".">>)>>), Cls(SpaceCh, 0, Unbounded)>>,
              <<Lit(<<"i","n","r">>), Cls(SpaceCh, 0, Unbounded)>> >>),
       Grp(1, << Cls(DigitCh, 1, 3), Star(<<Lit(<<",">>), Cls(DigitCh, 3, 3)>>),
                 Opt(<<Lit(<<".">>), Cls(DigitCh, 1, 2)>>) >>),
       WordB >>

ACCOUNT_MARKERS == {"X", "x", "#"}
AMOUNT_TERMINATORS == {".", ",", ")", "]", "}"}

\* the currency loop: the code of the first token of CURRENCY_CODES in text_lower
HasToken(text_lower, i) == Contains(text_lower, CURRENCY_CODES[i].token)
FindCurrency(text_lower) ==
    LET Code(i) == IF i = 0 THEN "INR" ELSE CURRENCY_CODES[i].code
    IN Code(FirstIndex(LAMBDA i : HasToken(text_lower, i), 1, Len(CURRENCY_CODES)))

CodeChars(code) ==
    CASE code = "INR" -> <<"I","N","R">> [] code = "USD" -> <<"U","S","D">> [] code = "AED" -> <<"A","E","D">>
      [] code = "EUR" -> <<"E","U","R">> [] code = "GBP" -> <<"G","B","P">> [] code = "SGD" -> <<"S","G","D">>
      [] code = "JPY" -> <<"J","P","Y">> [] OTHER -> <<>>

\* {"value": amount, "currency": currency, "formatted": f"{currency} {amount:,.2f}"}
Money(v, currency, chars, stage) ==
    [found |-> TRUE, value |-> v, currency |-> currency,
     formatted |-> chars \o <<" ">> \o Format2f(v), stage |-> stage]

NoAmount == [found |-> FALSE, value |-> Zero, currency |-> "", formatted |-> <<>>, stage |-> 0]

\* stage 1, one indicator: the candidate (amount, actual_pos) it appends, if any
Candidate(text, text_lower, indicator) ==
    LET Checked(amount, actual_pos, after) ==
            IF /\ InRange(amount)
               /\ ~(actual_pos > 0 /\ text[actual_pos] \in ACCOUNT_MARKERS)
               /\ ~(/\ after < Len(text)
                    /\ text[after + 1] \notin SpaceCh
                    /\ text[after + 1] \notin AMOUNT_TERMINATORS)
            THEN <<[amount |-> amount, pos |-> actual_pos]>>
            ELSE <<>>
        Matched(pos, context, match) ==
            IF match.ok
            THEN Checked(Float(RemoveCh(Group(context, match, 1), ",")), pos + match.start,
                         pos + match.end)
            ELSE <<>>
        Window(pos, context) == Matched(pos, context, ReSearch(CONTEXT_AMOUNT_PATTERN, context))
        After(pos) == Window(pos, Slice(text, pos, pos + ContextWindow))
        Found(at) == IF at >= 0 THEN After(at + Len(indicator)) ELSE <<>>
    IN Found(Find(text_lower, indicator))

RECURSIVE CandidatesFrom(_, _, _)
CandidatesFrom(text, text_lower, i) ==
    IF i > Len(TRANSACTION_INDICATORS) THEN <<>>
    ELSE Candidate(text, text_lower, TRANSACTION_INDICATORS[i])
         \o CandidatesFrom(text, text_lower, i + 1)

\* amounts.sort(key=position)[0]: the lowest position, the earliest appended on a tie
Earliest(amounts) ==
    amounts[CHOOSE i \in 1..Len(amounts) :
        /\ \A j \in 1..Len(amounts) : amounts[i].pos <= amounts[j].pos
        /\ \A j \in 1..(i - 1) : amounts[j].pos # amounts[i].pos]

\* stage 2: the first MONEY entity with an indicator in the 50 characters before
\* it and a value in range
LOOKBEHIND == 50

EntAmount(text_lower, ent) ==
    LET Valued(amount) == IF InRange(amount) THEN <<amount>> ELSE <<>>
        Cleaned(clean_amt) ==
            IF /\ Len(SelectSeq(clean_amt, LAMBDA c : c = ".")) <= 1
               /\ IsDigits(RemoveCh(clean_amt, "."))
            THEN Valued(Float(clean_amt))
            ELSE <<>>
    IN IF ContainsAny(Slice(text_lower, Max(0, ent.start_char - LOOKBEHIND), ent.start_char),
                      TRANSACTION_INDICATORS)
       THEN Cleaned(SelectSeq(ent.text, LAMBDA c : c \in DigitCh \cup {"."}))
       ELSE <<>>

RECURSIVE EntAmounts(_, _, _)
EntAmounts(text_lower, ents, i) ==
    IF i > Len(ents) THEN <<>>
    ELSE EntAmount(text_lower, ents[i]) \o EntAmounts(text_lower, ents, i + 1)

\* stage 4: the first number-like token, not tagged DATE and not preceded by a
\* one-letter token, with a value in range
TokenAmount(tokens, i) ==
    LET Valued(amount) == IF InRange(amount) THEN <<amount>> ELSE <<>>
        Number(token, s) ==
            IF /\ token.like_num /\ token.ent_type # "DATE"
               /\ FloatOk(s)
               /\ ~(i > 1 /\ Len(tokens[i - 1].text) = 1 /\ tokens[i - 1].text[1] \in AlphaCh)
            THEN Valued(Float(s))
            ELSE <<>>
    IN Number(tokens[i], RemoveCh(tokens[i].text, ","))

RECURSIVE TokenAmounts(_, _)
TokenAmounts(tokens, i) ==
    IF i > Len(tokens) THEN <<>>
    ELSE TokenAmount(tokens, i) \o TokenAmounts(tokens, i + 1)

\* the first stage, in order, that returns
Staged(found, later) == IF found.raised \/ found.value.found THEN found ELSE later

\* extract_amount(text): [raised, exc, value]
extract_amount(text, an) ==
    LET Stage1(amounts, currency) ==
            IF amounts # <<>>
            THEN Ret(Money(Earliest(amounts).amount, currency, CodeChars(currency), 1))
            ELSE Ret(NoAmount)
        Stage2(ents, currency) ==
            IF an.fault THEN [raised |-> TRUE, exc |-> "AnalyzerError", value |-> NoAmount]
            ELSE IF ents # <<>> THEN Ret(Money(ents[1], currency, CodeChars(currency), 2))
            ELSE Ret(NoAmount)
        Prefixed(amount, currency) ==
            IF InRange(amount) THEN Ret(Money(amount, currency, CodeChars(currency), 3))
            ELSE Ret(NoAmount)
        Stage3(text_lower, match, currency) ==
            IF match.ok
            THEN Prefixed(Float(RemoveCh(Group(text_lower, match, 1), ",")), currency)
            ELSE Ret(NoAmount)
        Stage4(toks) ==
            IF toks # <<>> THEN Ret(Money(toks[1], "INR", <<"I","N","R">>, 4)) ELSE Ret(NoAmount)
        Stages(text_lower, currency) ==
            Staged(Stage1(CandidatesFrom(text, text_lower, 1), currency),
            Staged(Stage2(EntAmounts(text_lower, an.ents, 1), currency),
            Staged(Stage3(text_lower, ReSearch(PREFIXED_AMOUNT_PATTERN, text_lower), currency),
                   Stage4(TokenAmounts(an.tokens, 1)))))
        Lowered(text_lower) == Stages(text_lower, FindCurrency(text_lower))
    IN Lowered(Lower(text))

(***************************************************************************)
(* The merchant extractor                                                  *)
(***************************************************************************)
Merchant(name, rule) == [found |-> TRUE, name |-> name, rule |-> rule]
NoMerchant == [found |-> FALSE, name |-> <<>>, rule |-> "none"]

AnyButNewline(m, n) == NCls({"\n"}, m, n)

\* r"on your ([a-zA-Z]+) App" and r"only on ([a-zA-Z]+)", re.IGNORECASE
APP_NAME_PATTERN == <<Lit(<<"o","n"," ","y","o","u","r"," ">>), Grp(1, <<Cls(LowerCh, 1, Unbounded)>>), Lit(<<" ","a","p","p">>)>>
ONLY_ON_PATTERN == <<Lit(<<"o","n","l","y"," ","o","n"," ">>), Grp(1, <<Cls(LowerCh, 1, Unbounded)>>)>>
\* r"^([A-Z\s]+) on"
INSTITUTION_PATTERN == <<Bol, Grp(1, <<Cls(UpperCh \cup SpaceCh, 1, Unbounded)>>), Lit(<<" ","o","n">>)>>

\* the first lookup, in order, that returns a merchant
Named(found, later) == IF found.found THEN found ELSE later

\* "if match := re.search(...)": the merchant made of group 1 of a match
Captured(t, match, suffix, rule) ==
    IF match.ok THEN Merchant(Group(t, match, 1) \o suffix, rule) ELSE NoMerchant

\* step 1: the branch for informational messages
InformationalMerchant(text) ==
    LET Institution(match) ==
            IF match.ok THEN Merchant(Strip(Group(text, match, 1)), "institution")
            ELSE NoMerchant
        Promotion(text_lower) ==
            IF \/ Contains(text_lower, <<"a","p","p">>) \/ Contains(text_lower, <<"b","u","y">>)
               \/ Contains(text_lower, <<"s","e","l","l">>)
            THEN Named(Captured(text, SearchI(APP_NAME_PATTERN, text), <<" ","A","p","p">>, "app_name"),
                       Captured(text, SearchI(ONLY_ON_PATTERN, text), <<" ","A","p","p">>, "app_name"))
            ELSE NoMerchant
        Update(text_lower) ==
            IF Contains(text_lower, <<"b","a","l","a","n","c","e">>) \/ Contains(text_lower, <<"f","u","n","d">>)
            THEN Institution(ReSearch(INSTITUTION_PATTERN, text))
            ELSE NoMerchant
        Lowered(text_lower) == Named(Promotion(text_lower), Update(text_lower))
    IN Lowered(Lower(text))

INVESTMENT_PROVIDERS == << <<"g","r","o","w","w">>, <<"c","o","i","n">>, <<"z","e","r","o","d","h","a">>, <<"u","p","s","t","o","x">>, <<"m","f"," ","u","t","i","l","i","t","y">> >>

\* the provider loops of step 2: the first provider of the list that is in
\* text_lower, the default when there is none
ProviderMerchant(text_lower, providers, suffix, default) ==
    LET Provider(i) ==
            IF i = 0 THEN Merchant(default, "provider_default")
            ELSE Merchant(Title(providers[i]) \o suffix, "provider")
    IN Provider(FirstIndex(LAMBDA i : Contains(text_lower, providers[i]), 1, Len(providers)))

\* step 3: r"trf\s+to\s+([a-zA-Z0-9\s]{3,30})" and the three like it, re.IGNORECASE
UpiPattern(verb) ==
    << Lit(verb), Cls(SpaceCh, 1, Unbounded), Lit(<<"t","o">>), Cls(SpaceCh, 1, Unbounded),
       Grp(1, <<Cls(LowerCh \cup DigitCh \cup SpaceCh, 3, 30)>>) >>
UPI_PATTERNS ==
    << UpiPattern(<<"t","r","f">>), UpiPattern(<<"s","e","n","t">>), UpiPattern(<<"p","a","i","d">>), UpiPattern(<<"t","r","a","n","s","f","e","r">>) >>

\* r"\s+Ref.*$" and r"\s+(?:UPI|ref|id|crn).*", both case-sensitive
REF_TAIL_PATTERN == <<Cls(SpaceCh, 1, Unbounded), Lit(<<"R","e","f">>), AnyButNewline(0, Unbounded), Eol>>
UPI_TAIL_PATTERN ==
    << Cls(SpaceCh, 1, Unbounded),
       Alt(<< <<Lit(<<"U","P","I">>)>>, <<Lit(<<"r","e","f">>)>>, <<Lit(<<"i","d">>)>>, <<Lit(<<"c","r","n">>)>> >>),
       AnyButNewline(0, Unbounded) >>

CleanUpi(captured) ==
    Title(ReSub(UPI_TAIL_PATTERN, <<>>, ReSub(REF_TAIL_PATTERN, <<>>, Strip(captured))))

UpiHit(text, match) ==
    IF match.ok THEN Merchant(CleanUpi(Group(text, match, 1)), "upi") ELSE NoMerchant
RECURSIVE UpiFrom(_, _)
UpiFrom(text, i) ==
    IF i > Len(UPI_PATTERNS) THEN NoMerchant
    ELSE Named(UpiHit(text, SearchI(UPI_PATTERNS[i], text)), UpiFrom(text, i + 1))
UpiMerchant(text) == UpiFrom(text, 1)

\* step 4: the general scan
MERCHANT_INDICATORS ==
    << <<"t","o">>, <<"a","t">>, <<"f","r","o","m">>, <<"t","r","f">>, <<"t","r","a","n","s","f","e","r">>, <<"r","e","c","h","a","r","g","e">>, <<"p","a","i","d">> >>

CandidateWindow == 50
MaxWords == 5

\* r"\b(?:ref|id|user|upi|rs|inr|amount|charged)\b.*", re.IGNORECASE
NOISE_PATTERN ==
    << WordB,
       Alt(<< <<Lit(<<"r","e","f">>)>>, <<Lit(<<"i","d">>)>>, <<Lit(<<"u","s","e","r">>)>>, <<Lit(<<"u","p","i">>)>>,
              <<Lit(<<"r","s">>)>>, <<Lit(<<"i","n","r">>)>>, <<Lit(<<"a","m","o","u","n","t">>)>>, <<Lit(<<"c","h","a","r","g","e","d">>)>> >>),
       WordB, AnyButNewline(0, Unbounded) >>
\* r"[^\w\s]"
PUNCTUATION_PATTERN == <<NCls(WordCh \cup SpaceCh, 1, 1)>>

\* candidate.split()[:5]
FirstWords(ws) == SubSeq(ws, 1, Min(MaxWords, Len(ws)))

\* [w.capitalize() for w in words if w.lower() not in MERCHANT_BLACKLIST and len(w) > 1]
KeptWords(ws) ==
    LET Capitalized(kept) == [i \in 1..Len(kept) |-> Capitalize(kept[i])]
    IN Capitalized(SelectSeq(ws, LAMBDA w : Lower(w) \notin MERCHANT_BLACKLIST /\ Len(w) > 1))

\* the words the scan keeps for one indicator
ScanWords(text, text_lower, indicator) ==
    LET Cleaned(window) ==
            ReSub(PUNCTUATION_PATTERN, <<" ">>, ReSubI(NOISE_PATTERN, <<>>, window))
        After(pos) ==
            IF pos < Len(text)
            THEN KeptWords(FirstWords(Split(Cleaned(Slice(text, pos, pos + CandidateWindow)))))
            ELSE <<>>
        Found(at) == IF at >= 0 THEN After(at + Len(indicator)) ELSE <<>>
    IN Found(Find(text_lower, indicator))

Joined(words) ==
    IF words # <<>> THEN Merchant(Strip(JoinSp(words)), "scan") ELSE NoMerchant
RECURSIVE ScanFrom(_, _, _)
ScanFrom(text, text_lower, i) ==
    IF i > Len(MERCHANT_INDICATORS) THEN NoMerchant
    ELSE Named(Joined(ScanWords(text, text_lower, MERCHANT_INDICATORS[i])),
               ScanFrom(text, text_lower, i + 1))
GeneralMerchant(text, text_lower) == ScanFrom(text, text_lower, 1)

\* step 5: the words of the noun chunk the analyzer found, blacklisted words dropped
ChunkWords(chunk) ==
    LET Capitalized(kept) == [i \in 1..Len(kept) |-> Capitalize(kept[i])]
    IN Capitalized(SelectSeq(chunk, LAMBDA w : Lower(w) \notin MERCHANT_BLACKLIST))

ChunkMerchant(words) == IF words # <<>> THEN Merchant(JoinSp(words), "chunk") ELSE NoMerchant

\* step 6: the defaults
DefaultMerchant(text_lower) ==
    IF Contains(text_lower, <<"a","t","m">>) THEN Merchant(<<"A","T","M"," ","W","i","t","h","d","r","a","w","a","l">>, "default")
    ELSE IF Contains(text_lower, <<"p","o","s">>) \/ Contains(text_lower, <<"s","w","i","p","e">>)
         THEN Merchant(<<"C","a","r","d"," ","P","u","r","c","h","a","s","e">>, "default")
    ELSE IF Contains(text_lower, <<"c","h","e","q","u","e">>) THEN Merchant(<<"C","h","e","q","u","e"," ","T","r","a","n","s","a","c","t","i","o","n">>, "default")
    ELSE Merchant(<<"M","e","r","c","h","a","n","t">>, "default")

\* the first step, in order, that returns
Stepped(found, later) == IF found.raised \/ found.value.found THEN found ELSE later

\* extract_merchant(text, category, subcategory): [raised, exc, value]
extract_merchant(text, category, subcategory, an) ==
    LET Fallback(text_lower) ==
            IF an.fault THEN [raised |-> TRUE, exc |-> "AnalyzerError", value |-> NoMerchant]
            ELSE Ret(Named(ChunkMerchant(ChunkWords(an.chunk)), DefaultMerchant(text_lower)))
        Upi ==
            IF category = "debit" /\ subcategory = <<"u","p","i">> THEN UpiMerchant(text)
            ELSE NoMerchant
        Lowered(text_lower) ==
            IF category = "informational" THEN Ret(InformationalMerchant(text))
            ELSE IF category = "loan" /\ subcategory # <<"g","e","n","e","r","i","c">>
            THEN Ret(Merchant(Title(subcategory) \o <<" ","L","o","a","n">>, "loan"))
            ELSE IF category = "recharge"
            THEN Ret(ProviderMerchant(text_lower, RECHARGE_PROVIDERS, <<" ","R","e","c","h","a","r","g","e">>,
                                      <<"M","o","b","i","l","e"," ","R","e","c","h","a","r","g","e">>))
            ELSE IF category = "insurance"
            THEN Ret(ProviderMerchant(text_lower, INSURANCE_PROVIDERS, <<" ","I","n","s","u","r","a","n","c","e">>,
                                      <<"I","n","s","u","r","a","n","c","e"," ","P","r","e","m","i","u","m">>))
            ELSE IF category = "investment"
            THEN Ret(ProviderMerchant(text_lower, INVESTMENT_PROVIDERS, <<" ","I","n","v","e","s","t","m","e","n","t">>,
                                      <<"I","n","v","e","s","t","m","e","n","t">>))
            ELSE Stepped(Ret(Upi),
                 Stepped(Ret(GeneralMerchant(text, text_lower)), Fallback(text_lower)))
    IN Lowered(Lower(text))

(***************************************************************************)
(* Dates: datetime, timedelta, strptime and strftime                       *)
(*                                                                         *)
(* A datetime is [y, m, d, tick]; tick orders the instants of one day.     *)
(***************************************************************************)
MINYEAR == 1
MAXYEAR == 9999

IsLeap(y) == (y % 4 = 0 /\ y % 100 # 0) \/ y % 400 = 0
DaysIn(y, m) ==
    IF m = 2 THEN (IF IsLeap(y) THEN 29 ELSE 28)
    ELSE IF m \in {4, 6, 9, 11} THEN 30 ELSE 31

DateTime(y, m, d, k) == [y |-> y, m |-> m, d |-> d, tick |-> k]
NoDate == DateTime(0, 0, 0, 0)

\* the datetime constructor accepts (y, m, d)
ValidDate(y, m, d) ==
    /\ MINYEAR <= y /\ y <= MAXYEAR
    /\ 1 <= m /\ m <= 12
    /\ 1 <= d /\ d <= DaysIn(y, m)

NextDay(t) ==
    IF t.d < DaysIn(t.y, t.m) THEN [t EXCEPT !.d = t.d + 1]
    ELSE IF t.m < 12 THEN [t EXCEPT !.m = t.m + 1, !.d = 1]
    ELSE [t EXCEPT !.y = t.y + 1, !.m = 1, !.d = 1]
PrevDay(t) ==
    IF t.d > 1 THEN [t EXCEPT !.d = t.d - 1]
    ELSE IF t.m > 1 THEN [t EXCEPT !.m = t.m - 1, !.d = DaysIn(t.y, t.m - 1)]
    ELSE [t EXCEPT !.y = t.y - 1, !.m = 12, !.d = 31]

\* base + timedelta(days=offset) for offset in -1..1; OverflowError outside
\* datetime.min..datetime.max
PlusDays(t, offset) ==
    LET Bounded(r) ==
            IF r.y < MINYEAR \/ r.y > MAXYEAR
            THEN [raised |-> TRUE, exc |-> "OverflowError", value |-> NoDate]
            ELSE Ret(r)
    IN Bounded(IF offset = 1 THEN NextDay(t) ELSE IF offset = -1 THEN PrevDay(t) ELSE t)

TwoDigits(n) == <<DigitSeq[(n \div 10) + 1], DigitSeq[(n % 10) + 1]>>

\* strftime("%Y-%m-%d"): %m and %d are zero-padded to two digits; the C library
\* this build runs on writes %Y as the year's decimal digits, without padding
StrfDate(t) == DigitsOf(t.y) \o <<"-">> \o TwoDigits(t.m) \o <<"-">> \o TwoDigits(t.d)

MONTH_ABBR ==
    << <<"j","a","n">>, <<"f","e","b">>, <<"m","a","r">>, <<"a","p","r">>, <<"m","a","y">>, <<"j","u","n">>, <<"j","u","l">>, <<"a","u","g">>, <<"s","e","p">>,
       <<"o","c","t">>, <<"n","o","v">>, <<"d","e","c">> >>
MONTH_NAME ==
    << <<"j","a","n","u","a","r","y">>, <<"f","e","b","r","u","a","r","y">>, <<"m","a","r","c","h">>, <<"a","p","r","i","l">>, <<"m","a","y">>, <<"j","u","n","e">>, <<"j","u","l","y">>,
       <<"a","u","g","u","s","t">>, <<"s","e","p","t","e","m","b","e","r">>, <<"o","c","t","o","b","e","r">>, <<"n","o","v","e","m","b","e","r">>, <<"d","e","c","e","m","b","e","r">> >>

\* the directives of strptime: the number a field parses to, 0 when it does not parse
\* %d: 3[0-1] | [1-2]\d | 0[1-9] | [1-9]
ParseDay(s) ==
    LET Day(n) == IF n >= 1 /\ n <= 31 THEN n ELSE 0
    IN IF Len(s) \in {1, 2} /\ IsDigits(s) THEN Day(ToInt(s)) ELSE 0
\* %m: 1[0-2] | 0[1-9] | [1-9]
ParseMonth(s) ==
    LET Month(n) == IF n >= 1 /\ n <= 12 THEN n ELSE 0
    IN IF Len(s) \in {1, 2} /\ IsDigits(s) THEN Month(ToInt(s)) ELSE 0
\* %b and %B: a month name of the C locale, in any case
ParseName(names, s) ==
    LET Numbered(lower) == FirstIndex(LAMBDA i : names[i] = lower, 1, Len(names))
    IN Numbered(Lower(s))
\* %Y: exactly four digits
ParseYear(s) == IF Len(s) = 4 /\ IsDigits(s) THEN ToInt(s) ELSE -1

\* datetime.strptime of the three fields: ValueError unless each field parses
\* and the date exists
Strptime(y, m, d) ==
    IF ValidDate(y, m, d) THEN Ret(DateTime(y, m, d, 0))
    ELSE [raised |-> TRUE, exc |-> "ValueError", value |-> NoDate]

\* the pivot for two-digit years: below 50 is 20xx, otherwise 19xx
YEAR_PIVOT == 50
FullYear(year) ==
    IF Len(year) = 2
    THEN (IF ToInt(year) < YEAR_PIVOT THEN <<"2","0">> ELSE <<"1","9">>) \o year
    ELSE year

(***************************************************************************)
(* The date extractor                                                      *)
(***************************************************************************)
\* relative_dates in declaration order
RELATIVE_DATES ==
    << [word |-> <<"t","o","d","a","y">>, offset |-> 0],
       [word |-> <<"y","e","s","t","e","r","d","a","y">>, offset |-> -1],
       [word |-> <<"t","o","m","o","r","r","o","w">>, offset |-> 1],
       [word |-> <<"n","o","w">>, offset |-> 0],
       [word |-> <<"j","u","s","t"," ","n","o","w">>, offset |-> 0],
       [word |-> <<"a"," ","m","o","m","e","n","t"," ","a","g","o">>, offset |-> 0] >>

DATE_INDICATORS == << <<"o","n">>, <<"d","a","t","e">>, <<"f","o","r">>, <<"b","y">>, <<"a","t">> >>

DateResult(chars, rule) == [date |-> chars, rule |-> rule]
NoDateResult == DateResult(<<>>, 0)

NoMatchingDate == [raised |-> TRUE, exc |-> "NoMatch", value |-> NoDate]

\* the first of two attempts that parses
OrParse(first, second) == IF ~first.raised THEN first ELSE second

\* rule 1: the first relative word of the table that is in the text
HasRelative(text_lower, i) == Contains(text_lower, RELATIVE_DATES[i].word)
FirstRelative(text_lower) ==
    FirstIndex(LAMBDA i : HasRelative(text_lower, i), 1, Len(RELATIVE_DATES))

\* rule 2: 15May25
CompactDate(text) ==
    LET Parsed(match) ==
            IF ~match.ok THEN NoMatchingDate
            ELSE Strptime(ParseYear(FullYear(Group(text, match, 3))),
                          ParseName(MONTH_ABBR, Group(text, match, 2)),
                          ParseDay(Group(text, match, 1)))
    IN Parsed(SearchI(FINANCIAL_PATTERNS.date_compact, text))

\* rule 3: dd/mm/yy; of the six formats the two written with "/" and the two
\* with "-" become "%d %m %Y" and "%m %d %Y", the two written with "." never
\* match the space-separated string
StandardDate(text) ==
    LET Formats(year, first, second) ==
            OrParse(Strptime(year, ParseMonth(second), ParseDay(first)),
                    Strptime(year, ParseMonth(first), ParseDay(second)))
        Parsed(match) ==
            IF ~match.ok THEN NoMatchingDate
            ELSE Formats(ParseYear(FullYear(Group(text, match, 3))), Group(text, match, 1),
                         Group(text, match, 2))
    IN Parsed(SearchI(FINANCIAL_PATTERNS.date_standard, text))

\* rule 4: 15 May 2025, "%d %B %Y" then "%d %b %Y"
VerboseDate(text) ==
    LET Formats(year, month, day) ==
            OrParse(Strptime(year, ParseName(MONTH_NAME, month), day),
                    Strptime(year, ParseName(MONTH_ABBR, month), day))
        Parsed(match) ==
            IF ~match.ok THEN NoMatchingDate
            ELSE Formats(ParseYear(Group(text, match, 3)), Group(text, match, 2),
                         ParseDay(Group(text, match, 1)))
    IN Parsed(SearchI(FINANCIAL_PATTERNS.date_verbose, text))

\* rule 5: a date indicator followed within 30 characters by "15 May 2025"
IndicatedDate(text, text_lower, indicator) ==
    LET Parsed(date_candidate, match) ==
            IF ~match.ok THEN NoMatchingDate
            ELSE Strptime(ParseYear(Group(date_candidate, match, 3)),
                          ParseName(MONTH_ABBR, Group(date_candidate, match, 2)),
                          ParseDay(Group(date_candidate, match, 1)))
        Window(date_candidate) ==
            Parsed(date_candidate, SearchI(FINANCIAL_PATTERNS.date_verbose, date_candidate))
        Found(pos) ==
            IF pos = -1 THEN NoMatchingDate
            ELSE Window(Slice(text, pos + Len(indicator), pos + Len(indicator) + ContextWindow))
    IN Found(Find(text_lower, indicator))

RECURSIVE IndicatedFrom(_, _, _)
IndicatedFrom(text, text_lower, i) ==
    IF i > Len(DATE_INDICATORS) THEN NoMatchingDate
    ELSE OrParse(IndicatedDate(text, text_lower, DATE_INDICATORS[i]),
                 IndicatedFrom(text, text_lower, i + 1))

\* an optional timestamp: None, or a datetime
NoTimestamp == [given |-> FALSE, at |-> NoDate]
Timestamp(t) == [given |-> TRUE, at |-> t]
\* a variant that reads the clock whatever timestamp was supplied
ClockOnly(sms_timestamp, clock) == clock

\* sms_timestamp or datetime.now()
OrNow(sms_timestamp, clock) == IF sms_timestamp.given THEN sms_timestamp.at ELSE clock

\* .strftime("%Y-%m-%d") of the date a rule produced
Formatted(parsed, rule) ==
    IF parsed.raised THEN [raised |-> TRUE, exc |-> parsed.exc, value |-> NoDateResult]
    ELSE Ret(DateResult(StrfDate(parsed.value), rule))

\* the first rule, in order, that returns; a rule that finds no date passes on
Ruled(found, later) == IF found.raised /\ found.exc \in {"NoMatch", "ValueError"} THEN later ELSE found

\* extract_date(text, sms_timestamp): [raised, exc, value]
extract_date(text, sms_timestamp, clock) ==
    LET Relative(i) ==
            IF i = 0 THEN NoMatchingDate
            ELSE PlusDays(OrNow(sms_timestamp, clock), RELATIVE_DATES[i].offset)
        Lowered(text_lower) ==
            Ruled(Formatted(Relative(FirstRelative(text_lower)), 1),
            Ruled(Formatted(CompactDate(text), 2),
            Ruled(Formatted(StandardDate(text), 3),
            Ruled(Formatted(VerboseDate(text), 4),
            Ruled(Formatted(IndicatedFrom(text, text_lower, 1), 5),
                  Formatted(Ret(OrNow(sms_timestamp, clock)), 6))))))
    IN Lowered(Lower(text))

(***************************************************************************)
(* The balance and reference extractors                                    *)
(***************************************************************************)
NoBalance == [found |-> FALSE, value |-> Zero, currency |-> "", formatted |-> <<>>]

\* CURRENCY_CODES.get(currency.lower(), currency.upper()) for a currency the
\* balance pattern captured (each is a key of the table)
CodeOf(token) ==
    CURRENCY_CODES[FirstIndex(LAMBDA i : CURRENCY_CODES[i].token = token, 1,
                              Len(CURRENCY_CODES))].code

\* {"value": amount, "currency": currency_code, "formatted": ...}
Balance(amount, currency_code) ==
    [found |-> TRUE, value |-> amount, currency |-> currency_code,
     formatted |-> CodeChars(currency_code) \o <<" ">> \o Format2f(amount)]

\* the finditer loop from offset p on: the first match whose amount float() accepts
RECURSIVE BalanceFrom(_, _, _)
BalanceFrom(text, text_lower, p) ==
    LET Valued(match, amount_str) ==
            IF FloatOk(amount_str)
            THEN Balance(Float(amount_str),
                         CodeOf(IF match.caps[1][1] = -1 THEN <<"i","n","r">>
                                ELSE Group(text_lower, match, 1)))
            ELSE BalanceFrom(text, text_lower, match.end)
        Matched(match) ==
            IF ~match.ok THEN NoBalance
            ELSE Valued(match, RemoveCh(Group(text, match, 2), ","))
    IN Matched(ReSearchFrom(FINANCIAL_PATTERNS.balance, text_lower, p))

\* extract_balance(text)
extract_balance(text) == BalanceFrom(text, Lower(text), 0)

NoReference == [found |-> FALSE, ref |-> <<>>]

\* r"[:\-]\s*" and r"\s+"
REF_SEPARATOR_PATTERN == <<Cls({":", "-"}, 1, 1), Cls(SpaceCh, 0, Unbounded)>>
SPACES_PATTERN == <<Cls(SpaceCh, 1, Unbounded)>>

\* extract_reference(text)
extract_reference(text) ==
    LET Cleaned(match) ==
            IF match.ok
            THEN [found |-> TRUE,
                  ref |-> Upper(Strip(ReSub(SPACES_PATTERN, <<" ">>,
                             ReSub(REF_SEPARATOR_PATTERN, <<" ">>, Group0(text, match)))))]
            ELSE NoReference
    IN Cleaned(SearchI(FINANCIAL_PATTERNS.reference, text))

(***************************************************************************)
(* The orchestrator: parse_sms_spacy                                       *)
(***************************************************************************)
\* a variant of the blank test that does not strip: "if not sms_text"
IsBlankUnstripped(sms_text) == sms_text = <<>>

\* not sms_text or not sms_text.strip()
IsBlank(sms_text) == Strip(sms_text) = <<>>

NoExtra == [key |-> "", null |-> TRUE, value |-> <<>>]
Extra(key, value) == [key |-> key, null |-> FALSE, value |-> value]

\* subcategory if subcategory != "generic" else merchant
LoanProvider(subcategory, merchant) ==
    IF subcategory # <<"g","e","n","e","r","i","c">> THEN Extra("loan_provider", subcategory)
    ELSE [key |-> "loan_provider", null |-> ~merchant.found, value |-> merchant.name]

\* subcategory or merchant
OrMerchant(key, subcategory, merchant) ==
    IF subcategory # <<>> THEN Extra(key, subcategory)
    ELSE [key |-> key, null |-> ~merchant.found, value |-> merchant.name]

\* step 4: the category-specific key of the record
Metadata(sms_text, category, subcategory, merchant) ==
    LET InfoType(lower) ==
            IF Contains(lower, <<"p","r","i","c","e">>) \/ Contains(lower, <<"r","a","t","e">>)
            THEN Extra("info_type", <<"m","a","r","k","e","t","_","u","p","d","a","t","e">>)
            ELSE IF Contains(lower, <<"b","a","l","a","n","c","e">>) \/ Contains(lower, <<"f","u","n","d">>)
            THEN Extra("info_type", <<"b","a","l","a","n","c","e","_","u","p","d","a","t","e">>)
            ELSE IF \/ Contains(lower, <<"o","f","f","e","r">>) \/ Contains(lower, <<"d","e","a","l">>)
                    \/ Contains(lower, <<"b","u","y">>)
            THEN Extra("info_type", <<"p","r","o","m","o","t","i","o","n">>)
            ELSE NoExtra
    IN IF category = "loan" THEN LoanProvider(subcategory, merchant)
       ELSE IF category = "investment" THEN OrMerchant("investment_platform", subcategory, merchant)
       ELSE IF category = "insurance" THEN OrMerchant("insurance_provider", subcategory, merchant)
       ELSE IF category = "informational" THEN InfoType(Lower(sms_text))
       ELSE NoExtra

NoRecord ==
    [raw_text |-> <<>>, category |-> "", subcategory |-> <<>>, amount |-> NoAmount,
     merchant |-> NoMerchant, date |-> NoDateResult, balance |-> NoBalance,
     reference |-> NoReference, parser |-> "", timestamp |-> NoDate, confidence |-> 0,
     extra |-> NoExtra, steps |-> <<>>]

\* the outcome of a call of parse_sms_spacy: a record, or the SMSParseError raised
Returned(record) == [raised |-> FALSE, exc |-> NoFault, message |-> "", cause |-> "", value |-> record]
ParseError(message, cause) ==
    [raised |-> TRUE, exc |-> "SMSParseError", message |-> message, cause |-> cause,
     value |-> NoRecord]

\* a variant that extracts the three fields for every category
AlwaysTransactional(category) == TRUE

\* the amount, merchant and reference of a record: extracted only when the
\* category is not "informational"
Transactional(category) == category # "informational"

\* an exception of a step, leaving the try block
Raised(step) == [raised |-> TRUE, exc |-> step.exc, value |-> NoRecord]

\* the steps a call runs for a category, in order
StepsFor(category) ==
    <<"detect_category">>
    \o (IF Transactional(category)
        THEN <<"extract_amount", "extract_merchant", "extract_reference">> ELSE <<>>)
    \o <<"extract_date", "extract_balance">>

\* the body of the try block: the first exception of a step ends it; clock is
\* what datetime.now() returns to extract_date and later what it returns when
\* the record is built
TryParse(sms_text, sms_timestamp, an, clock, later) ==
    LET Result(detected, amount, merchant, reference, transaction_date) ==
            Ret([raw_text |-> sms_text,
                 category |-> detected.category,
                 subcategory |-> detected.subcategory,
                 amount |-> amount,
                 merchant |-> merchant,
                 date |-> transaction_date,
                 balance |-> extract_balance(sms_text),
                 reference |-> reference,
                 parser |-> "spacy_universal_v4",
                 timestamp |-> later,
                 confidence |-> detected.confidence,
                 extra |-> Metadata(sms_text, detected.category, detected.subcategory, merchant),
                 steps |-> StepsFor(detected.category)])
        Dated(detected, amount, merchant, reference, transaction_date) ==
            IF transaction_date.raised THEN Raised(transaction_date)
            ELSE Result(detected, amount, merchant, reference, transaction_date.value)
        Merchanted(detected, amount, merchant) ==
            IF merchant.raised THEN Raised(merchant)
            ELSE Dated(detected, amount, merchant.value,
                       IF Transactional(detected.category) THEN extract_reference(sms_text)
                       ELSE NoReference,
                       extract_date(sms_text, sms_timestamp, clock))
        Valued(detected, amount) ==
            IF amount.raised THEN Raised(amount)
            ELSE Merchanted(detected, amount.value,
                        IF Transactional(detected.category)
                        THEN extract_merchant(sms_text, detected.category,
                                              detected.subcategory, an)
                        ELSE Ret(NoMerchant))
        Detected(detected) ==
            IF detected.raised THEN Raised(detected)
            ELSE Valued(detected.value,
                        IF Transactional(detected.value.category)
                        THEN extract_amount(sms_text, an) ELSE Ret(NoAmount))
    IN Detected(detect_category(sms_text, an))

\* parse_sms_spacy(sms_text, sms_timestamp): datetime.now() is read by
\* extract_date, when no timestamp is supplied and the date comes from it
\* (clock), and again for the record's timestamp (later)
parse_sms_spacy(sms_text, sms_timestamp, an, clock, later) ==
    LET Caught(tried) ==
            IF tried.raised THEN ParseError("Universal SMS parsing failed: ", tried.exc)
            ELSE Returned(tried.value)
    IN IF IsBlank(sms_text) THEN ParseError("Empty SMS content", "")
       ELSE Caught(TryParse(sms_text, sms_timestamp, an, clock, later))

(***************************************************************************)
(* The route: POST /api/parse_expense and GET /api/ping                    *)
(***************************************************************************)
HTTP_OK == 200
HTTP_BAD_REQUEST == 400
HTTP_SERVER_ERROR == 500

Response(status, success, detail, cause, data) ==
    [status |-> status, success |-> success, detail |-> detail, cause |-> cause, data |-> data]

\* a variant of the route with one handler for every exception: 500 with the
\* fixed text
parse_expense_one_handler(message, timestamp, an, clock) ==
    LET Handled(parsed_data) ==
            IF ~parsed_data.raised THEN Response(HTTP_OK, TRUE, "", "", parsed_data.value)
            ELSE Response(HTTP_SERVER_ERROR, FALSE, "Internal server error", "", NoRecord)
    IN Handled(parse_sms_spacy(message, Timestamp(timestamp), an, clock, clock))

\* parse_expense(sms): the record on success, 400 with str(e) for SMSParseError,
\* 500 with a fixed text for any other exception; the timestamp being supplied,
\* the call reads the clock once, for the record's timestamp
parse_expense(message, timestamp, an, clock) ==
    LET Handled(parsed_data) ==
            IF ~parsed_data.raised THEN Response(HTTP_OK, TRUE, "", "", parsed_data.value)
            ELSE IF parsed_data.exc = "SMSParseError"
            THEN Response(HTTP_BAD_REQUEST, FALSE, parsed_data.message, parsed_data.cause,
                          NoRecord)
            ELSE Response(HTTP_SERVER_ERROR, FALSE, "Internal server error", "", NoRecord)
    IN Handled(parse_sms_spacy(message, Timestamp(timestamp), an, clock, clock))

\* health_check(): {"status": "Server is running"}, held in detail
health_check == Response(HTTP_OK, FALSE, "Server is running", "", NoRecord)

(***************************************************************************)
(* The inputs of the model                                                 *)
(***************************************************************************)
MSG_EMPTY == <<>>
MSG_BLANK == <<" ","\t","\n">>
MSG_BALANCE == <<"B","a","l","a","n","c","e"," ","a","l","e","r","t",":"," ","Y","o","u","r"," ","s","a","v","i","n","g","s"," ","a","c","c","o","u","n","t"," ","b","a","l","a","n","c","e"," ","i","s"," ","R","s"," ","4","5","0","0","0">>
MSG_UPI == <<"I","N","R"," ","1","5","0","0"," ","d","e","b","i","t","e","d"," ","f","o","r"," ","U","P","I"," ","t","r","a","n","s","f","e","r"," ","t","o"," ","A","m","i","t"," ","K","u","m","a","r"," ","o","n"," ","1","5","M","a","y","2","5">>
MSG_ACCOUNT == <<"R","s",".","5","0","0","0"," ","d","e","b","i","t","e","d"," ","f","r","o","m"," ","A","/","c"," ","X","6","0","7","2">>
MSG_EMI == <<"Y","o","u","r"," ","E","M","I"," ","o","f"," ","R","s"," ","2","5","0","0"," ","f","o","r"," ","P","e","r","s","o","n","a","l"," ","L","o","a","n"," ","h","a","s"," ","b","e","e","n"," ","p","r","o","c","e","s","s","e","d">>
MSG_PROMO == <<"M","a","r","k","e","t"," ","u","p","d","a","t","e",":"," ","g","o","l","d"," ","p","r","i","c","e"," ","i","s"," ","u","p","."," ","B","u","y"," ","o","n","l","y"," ","o","n"," ","G","r","o","w","w">>
MSG_CAFE == <<"P","a","i","d"," ","R","s"," ","2","5","0"," ","a","t"," ","C","a","f","e"," ","y","e","s","t","e","r","d","a","y">>
MSG_DUE == <<"P","a","y","m","e","n","t"," ","o","f"," ","R","s"," ","5","0","0"," ","d","u","e"," ","t","o","m","o","r","r","o","w">>
MSG_OLD == <<"P","a","i","d"," ","R","s"," ","1","2","0"," ","t","o"," ","S","t","o","r","e"," ","o","n"," ","1","5"," ","M","a","y"," ","0","9","9","9">>
MSG_HUGE == <<"P","a","i","d"," ","R","s"," ","2","0",",","0","0","0",",","0","0","0"," ","t","o"," ","R","a","m">>
MSG_POLICY == <<"P","o","l","i","c","y"," ","7"," ","r","e","n","e","w","a","l">>
MSG_SLASH == <<"R","s"," ","5","0","0","/","-"," ","p","a","i","d"," ","t","o"," ","R","a","m">>
MSG_PAISE == <<"P","a","i","d"," ","R","s"," ","0",".","5","0"," ","t","o"," ","R","a","m">>
MSG_BOTH == <<"P","a","i","d"," ","R","s"," ","2","5","0"," ","t","o","d","a","y"," ","f","o","r"," ","t","h","e"," ","b","i","l","l"," ","o","f"," ","y","e","s","t","e","r","d","a","y">>
MSG_ZERO == <<"D","e","b","i","t","e","d"," ","R","s"," ","2","5","0","."," ","B","a","l",":"," ","R","s"," ","0">>
MSG_SIXTH == <<"P","a","i","d"," ","t","o"," ","y","o","u","r"," ","b","a","n","k"," ","a","c","c","o","u","n","t"," ","c","a","r","d"," ","p","a","y","m","e","n","t"," ","S","w","i","g","g","y">>

Messages ==
    { MSG_EMPTY, MSG_BLANK, MSG_BALANCE, MSG_UPI, MSG_ACCOUNT, MSG_EMI, MSG_PROMO, MSG_CAFE,
      MSG_DUE, MSG_OLD, MSG_HUGE, MSG_POLICY, MSG_SLASH, MSG_PAISE,
      MSG_BOTH, MSG_ZERO, MSG_SIXTH }

\* the messages whose date depends on the reference timestamp
DatedByTimestamp == { MSG_BLANK, MSG_CAFE, MSG_DUE, MSG_ACCOUNT }

TS_REF == DateTime(2025, 6, 10, 0)
TS_MIN == DateTime(MINYEAR, 1, 1, 0)
TS_MAX == DateTime(MAXYEAR, 12, 31, 0)

\* the instant the process starts
START == DateTime(2025, 12, 31, 0)

\* the clock: at most MaxTick ticks, TicksPerDay of them in a day
MaxTick == 1
TicksPerDay == 1

\* the clock one tick after t
Ticked(t) ==
    IF (t.tick + 1) % TicksPerDay = 0
    THEN [NextDay(t) EXCEPT !.tick = t.tick + 1]
    ELSE [t EXCEPT !.tick = t.tick + 1]

\* what the clock may read later in a call that read t
RECURSIVE LaterReads(_)
LaterReads(t) == {t} \cup (IF t.tick < MaxTick THEN LaterReads(Ticked(t)) ELSE {})

Request(via, message, ts) == [pending |-> TRUE, via |-> via, message |-> message, ts |-> ts]
NoReq == [pending |-> FALSE, via |-> "", message |-> <<>>, ts |-> NoTimestamp]

\* a timestamp is optional for both entry points; the extreme timestamps are
\* sent with the messages whose date they decide
Requests ==
    { Request(via, m, ts) :
        via \in {"http", "call"}, m \in Messages, ts \in {NoTimestamp, Timestamp(TS_REF)} }
    \cup { Request(via, m, Timestamp(t)) :
        via \in {"http", "call"}, m \in DatedByTimestamp, t \in {TS_MIN, TS_MAX} }

\* no text has been classified
NoVerdict == [done |-> FALSE, text |-> <<>>, mode |-> "", raised |-> FALSE, result |-> NoCategory]

NoMemo == [known |-> FALSE, text |-> <<>>, mode |-> ""]
NoResp ==
    [kind |-> "none", request |-> NoReq, status |-> 0, success |-> FALSE, raised |-> FALSE,
     exc |-> "", detail |-> "", cause |-> "", record |-> NoRecord, mode |-> "", used |-> NoDate]

(***************************************************************************)
(* The state machine                                                       *)
(*   now        the clock datetime.now() reads                             *)
(*   defaultTs  the default of SMSRequest.timestamp, evaluated when the    *)
(*              class is defined                                           *)
(*   req        the request being handled, if any                          *)
(*   nlpMemo    the analyzer's behaviour for the message last analyzed     *)
(*   resp       the answer to the last request                             *)
(*   prev       the answer before it, when the last request repeated it    *)
(*   draft, verdict   used by the classifier's own machine only             *)
(***************************************************************************)
Init ==
    /\ now = START
    /\ defaultTs = START
    /\ req = NoReq
    /\ nlpMemo = NoMemo
    /\ resp = NoResp
    /\ prev = NoResp
    /\ draft = <<>>
    /\ verdict = NoVerdict

\* time passes
Tick ==
    /\ now.tick < MaxTick
    /\ now' = Ticked(now)
    /\ UNCHANGED <<defaultTs, req, nlpMemo, resp, prev, draft, verdict>>

\* a client that holds no answer sends a request, or calls the parser
Submit(r) ==
    /\ ~req.pending
    /\ resp.kind = "none"
    /\ req' = r
    /\ UNCHANGED <<resp, prev>>
    /\ nlpMemo' = IF nlpMemo.known /\ nlpMemo.text = r.message THEN nlpMemo ELSE NoMemo
    /\ UNCHANGED <<now, defaultTs, draft, verdict>>

\* a client repeats its last request
Resubmit ==
    /\ ~req.pending
    /\ resp.kind \in {"http", "call"}
    /\ req' = resp.request
    /\ prev' = resp
    /\ UNCHANGED <<now, defaultTs, nlpMemo, resp, draft, verdict>>

\* a client drops the answer it holds
Discard ==
    /\ ~req.pending
    /\ resp.kind # "none"
    /\ resp' = NoResp
    /\ prev' = NoResp
    /\ UNCHANGED <<now, defaultTs, req, nlpMemo, draft, verdict>>

\* the behaviours the analyzer may show for the pending message
ModesFor(message) ==
    IF nlpMemo.known /\ nlpMemo.text = message THEN {nlpMemo.mode} ELSE NlpModes

Answer(kind, mode, status, success, raised, exc, detail, cause, record, used) ==
    [kind |-> kind, request |-> req, status |-> status, success |-> success,
     raised |-> raised, exc |-> exc, detail |-> detail, cause |-> cause, record |-> record,
     mode |-> mode, used |-> used]

\* POST /api/parse_expense: pydantic fills a missing timestamp with the default
ParseExpense ==
    /\ req.pending /\ req.via = "http"
    /\ \E mode \in ModesFor(req.message), timestamp \in {IF req.ts.given THEN req.ts.at ELSE defaultTs} :
         \E r \in {parse_expense(req.message, timestamp, Analyze(mode, req.message), now)} :
            /\ resp' = Answer("http", mode, r.status, r.success, FALSE, "", r.detail, r.cause,
                              r.data, timestamp)
            /\ nlpMemo' = [known |-> TRUE, text |-> req.message, mode |-> mode]
    /\ req' = NoReq
    /\ UNCHANGED <<now, defaultTs, prev, draft, verdict>>

\* a direct call parse_sms_spacy(sms_text, sms_timestamp): without a timestamp
\* the call reads the clock in extract_date and again for the record's
\* timestamp, and the clock may move between the two reads
ParseSmsSpacy ==
    /\ req.pending /\ req.via = "call"
    /\ \E mode \in ModesFor(req.message),
          later \in (IF req.ts.given THEN {now} ELSE LaterReads(now)) :
         \E r \in {parse_sms_spacy(req.message, req.ts, Analyze(mode, req.message), now, later)} :
            /\ resp' = Answer("call", mode, 0, ~r.raised, r.raised, r.exc, r.message, r.cause,
                              r.value, OrNow(req.ts, now))
            /\ nlpMemo' = [known |-> TRUE, text |-> req.message, mode |-> mode]
            /\ now' = later
    /\ req' = NoReq
    /\ UNCHANGED <<defaultTs, prev, draft, verdict>>

\* GET /api/ping
HealthCheck ==
    /\ ~req.pending
    /\ resp.kind = "none"
    /\ resp' = [NoResp EXCEPT !.kind = "ping", !.status = health_check.status,
                              !.detail = health_check.detail]
    /\ prev' = NoResp
    /\ UNCHANGED <<now, defaultTs, req, nlpMemo, draft, verdict>>

Next ==
    \/ Tick
    \/ \E r \in Requests : Submit(r)
    \/ Resubmit
    \/ Discard
    \/ ParseExpense
    \/ ParseSmsSpacy
    \/ HealthCheck

Spec == Init /\ [][Next]_vars

(***************************************************************************)
(* The classifier on its own                                               *)
(*                                                                         *)
(* detect_category applied to every text of at most MaxDraft words of a    *)
(* small vocabulary: the keywords the steps of the classifier compete      *)
(* for.                                                                    *)
(*   draft     the words of the text being written                         *)
(*   verdict   the result of detect_category for the finished text         *)
(***************************************************************************)
WORDS ==
    << <<"e","m","i">>, <<"l","o","a","n">>, <<"f","o","r">>, <<"c","r","e","d","i","t","e","d">>, <<"d","e","b","i","t","e","d">>, <<"a","t","m">>, <<"s","a","l","a","r","y">>, <<"s","l","i","c","e">> >>

MaxDraft == 3

\* every text of 1..MaxDraft words
Drafts == UNION { [1..n -> Range(WORDS)] : n \in 1..MaxDraft }

ClassifyInit ==
    /\ now = START
    /\ defaultTs = START
    /\ req = NoReq
    /\ nlpMemo = NoMemo
    /\ resp = NoResp
    /\ prev = NoResp
    /\ draft = <<>>
    /\ verdict = NoVerdict

\* one more word
Write(w) ==
    /\ ~verdict.done
    /\ Len(draft) < MaxDraft
    /\ draft' = Append(draft, w)
    /\ UNCHANGED <<now, defaultTs, req, nlpMemo, resp, prev, verdict>>

\* detect_category(text) for the text written
Classify ==
    /\ ~verdict.done
    /\ draft # <<>>
    /\ \E mode \in NlpModes :
         \E r \in {detect_category(JoinSp(draft), Analyze(mode, JoinSp(draft)))} :
            verdict' = [done |-> TRUE, text |-> JoinSp(draft), mode |-> mode,
                        raised |-> r.raised, result |-> r.value]
    /\ UNCHANGED <<now, defaultTs, req, nlpMemo, resp, prev, draft>>

\* a new text
Erase ==
    /\ verdict.done
    /\ draft' = <<>>
    /\ verdict' = NoVerdict
    /\ UNCHANGED <<now, defaultTs, req, nlpMemo, resp, prev>>

ClassifyNext ==
    \/ \E i \in 1..Len(WORDS) : Write(WORDS[i])
    \/ Classify
    \/ Erase

ClassifySpec == ClassifyInit /\ [][ClassifyNext]_vars

(***************************************************************************)
(* Properties                                                              *)
(*                                                                         *)
(* resp is the answer to the last request: resp.request is the request,    *)
(* resp.mode the behaviour the analyzer showed, resp.record the record     *)
(* returned (NoRecord when the call raised).                               *)
(***************************************************************************)
Answered == resp.kind \in {"http", "call"}

\* every character of t is whitespace (the empty text included)
WhitespaceOnly(t) == \A i \in 1..Len(t) : t[i] \in SpaceCh

\* t matches ^\d{4}-\d{2}-\d{2}$
IsoDate(t) ==
    /\ Len(t) = 10
    /\ \A i \in {1, 2, 3, 4, 6, 7, 9, 10} : t[i] \in DigitCh
    /\ t[5] = "-" /\ t[8] = "-"

\* two records that agree in every field but the processing timestamp
SameButTimestamp(a, b) == [a EXCEPT !.timestamp = NoDate] = [b EXCEPT !.timestamp = NoDate]

\* C1: parse_sms_spacy called with an empty or whitespace-only text raises
\* SMSParseError("Empty SMS content") and returns no record, whatever the
\* timestamp and whatever the analyzer would do: no step has run.
C1_BlankRaises ==
    resp.kind = "call" /\ WhitespaceOnly(resp.request.message)
    => /\ resp.raised
       /\ resp.exc = "SMSParseError"
       /\ resp.detail = "Empty SMS content"
       /\ resp.cause = ""
       /\ resp.record = NoRecord
       /\ resp.record.steps = <<>>

\* a whitespace-only text with the largest timestamp, the analyzer failing
C1_Witness ==
    /\ resp.kind = "call"
    /\ resp.request.message = MSG_BLANK
    /\ resp.request.ts = Timestamp(TS_MAX)
    /\ resp.mode = "failing"
    /\ resp.raised

\* C2: a record whose category is "informational" has a null amount, currency,
\* formatted amount, merchant and reference, also where the extractors would
\* have found one.
C2_InformationalNulls ==
    Answered /\ resp.success /\ resp.record.category = "informational"
    => /\ ~resp.record.amount.found
       /\ resp.record.amount.currency = ""
       /\ resp.record.amount.formatted = <<>>
       /\ ~resp.record.merchant.found
       /\ ~resp.record.reference.found
       /\ resp.record.steps = <<"detect_category", "extract_date", "extract_balance">>

\* an informational message in which the app-name rule finds a merchant
C2_Witness ==
    /\ Answered /\ resp.success
    /\ resp.record.category = "informational"
    /\ resp.request.message = MSG_PROMO
    /\ InformationalMerchant(MSG_PROMO).found

\* a double between 1 and 10,000,000, the limits included
OneToTenMillion(x) ==
    /\ ~x.inf
    /\ Len(x.int) \in 1..24
    /\ ValueOf(x.int) \in 1..10000000
    /\ ValueOf(x.int) = 10000000 => AllZero(x.frac)

\* C3: the amount of a record, if there is one, is at least 1 and at most
\* 10,000,000, whichever stage of extract_amount produced it.
C3_AmountInRange ==
    Answered /\ resp.success /\ resp.record.amount.found
    => /\ resp.record.amount.stage \in 1..4
       /\ ~resp.record.amount.value.neg
       /\ OneToTenMillion(Nearest(resp.record.amount.value))

\* an amount the currency-prefixed pattern (stage 3) produced, the stages
\* before it having found none
C3_Witness ==
    /\ Answered /\ resp.success
    /\ resp.record.amount.found
    /\ resp.record.amount.stage = 3
    /\ resp.request.message = MSG_SLASH

\* C4: for every text that is not whitespace-only and every timestamp, the
\* analyzer working, parse returns a record whose date matches
\* ^\d{4}-\d{2}-\d{2}$.
C4_DateAlwaysIso ==
    Answered /\ ~WhitespaceOnly(resp.request.message) /\ resp.mode # "failing"
    => /\ resp.success
       /\ IsoDate(resp.record.date.date)

\* C5: two calls with the same text and the same supplied timestamp have the
\* same outcome, the records equal in every field but the processing
\* timestamp, whatever the clock did between them.
C5_Idempotent ==
    /\ prev.kind = "call" /\ resp.kind = "call"
    /\ resp.request = prev.request
    /\ resp.request.ts.given
    => /\ resp.raised = prev.raised
       /\ resp.exc = prev.exc
       /\ resp.detail = prev.detail
       /\ resp.cause = prev.cause
       /\ SameButTimestamp(resp.record, prev.record)

\* a relative date resolved twice from the same supplied timestamp, a day of
\* the clock apart
C5_Witness ==
    /\ prev.kind = "call" /\ resp.kind = "call"
    /\ resp.request = prev.request
    /\ resp.request.message = MSG_CAFE
    /\ resp.request.ts = Timestamp(TS_REF)
    /\ resp.success /\ prev.success
    /\ resp.record.timestamp.d # prev.record.timestamp.d

\* C6: when a step of the try block raises, parse_sms_spacy raises
\* SMSParseError with the wrapping message and the cause and returns no
\* record; every call either raises SMSParseError without a record or returns
\* a record all of whose steps ran; the route answers 400 with the message to
\* a raising call and 200 to a returning one, and never 500.
C6_FaultsWrapped ==
    LET Wrapped(tried) ==
            /\ tried.raised
               => /\ ~resp.success
                  /\ resp.detail = "Universal SMS parsing failed: "
                  /\ resp.cause = tried.exc
                  /\ resp.record = NoRecord
            /\ ~tried.raised => resp.success /\ resp.record # NoRecord
    IN Answered
       => /\ resp.success
             => /\ resp.record.parser = "spacy_universal_v4"
                /\ resp.record.steps = StepsFor(resp.record.category)
          /\ ~resp.success
             => /\ resp.record = NoRecord
                /\ resp.detail \in {"Empty SMS content", "Universal SMS parsing failed: "}
          /\ resp.kind = "call" => (resp.raised <=> ~resp.success)
          /\ resp.kind = "call" /\ resp.raised => resp.exc = "SMSParseError"
          /\ resp.kind = "http"
             => resp.status = (IF resp.success THEN HTTP_OK ELSE HTTP_BAD_REQUEST)
          /\ ~WhitespaceOnly(resp.request.message)
             => Wrapped(TryParse(resp.request.message, Timestamp(resp.used),
                                 Analyze(resp.mode, resp.request.message), START, START))

\* the analyzer fails under a request of the route
C6_Witness ==
    /\ resp.kind = "http"
    /\ resp.mode = "failing"
    /\ resp.status = HTTP_BAD_REQUEST
    /\ resp.detail = "Universal SMS parsing failed: "
    /\ resp.cause = "AnalyzerError"
    /\ resp.record = NoRecord

\* C7: a record of a category with context phrases configured that only the
\* specialized scan and the loan re-check return (loan, investment) has a
\* context phrase matching the normalized text, and the confidence 0.85 goes
\* with no category that has context phrases but "emi", which the credit and
\* debit steps also return.
C7_ContextRequired ==
    Answered /\ resp.success
    => /\ resp.record.category \in {"loan", "investment"}
          => SearchAny(Normalize(resp.request.message),
                       Config(resp.record.category).context_phrases)
       /\ resp.record.confidence = 85 /\ resp.record.category # "emi"
          => ~Config(resp.record.category).has_context_phrases

\* C8: the balance alert is informational with info_type "balance_update", has
\* no amount and a balance of 45000.
C8_BalanceAlert ==
    Answered /\ resp.request.message = MSG_BALANCE /\ resp.mode # "failing"
    => /\ resp.success
       /\ resp.record.category = "informational"
       /\ resp.record.extra = Extra("info_type", <<"b","a","l","a","n","c","e","_","u","p","d","a","t","e">>)
       /\ ~resp.record.amount.found
       /\ resp.record.balance.found
       /\ resp.record.balance.value = [int |-> <<"4","5","0","0","0">>, frac |-> <<>>, neg |-> FALSE]

\* C9: the UPI transfer is a debit of subcategory "upi", amount 1500 INR, merchant
\* "Amit Kumar", date "2025-05-15".
C9_UpiTransfer ==
    Answered /\ resp.request.message = MSG_UPI /\ resp.mode # "failing"
    => /\ resp.success
       /\ resp.record.category = "debit"
       /\ resp.record.subcategory = <<"u","p","i">>
       /\ resp.record.amount.found
       /\ resp.record.amount.value = [int |-> <<"1","5","0","0">>, frac |-> <<>>, neg |-> FALSE]
       /\ resp.record.amount.currency = "INR"
       /\ resp.record.merchant.found
       /\ resp.record.merchant.name = <<"A","m","i","t"," ","K","u","m","a","r">>
       /\ resp.record.date.date = <<"2","0","2","5","-","0","5","-","1","5">>

\* C10: the amount extracted from "Rs.5000 debited from A/c X6072" is 5000.
C10_AccountGuard ==
    Answered /\ resp.request.message = MSG_ACCOUNT /\ resp.success
    => /\ resp.record.amount.found
       /\ resp.record.amount.value = [int |-> <<"5","0","0","0">>, frac |-> <<>>, neg |-> FALSE]

\* C11: for a text that contains "yesterday" and a supplied timestamp T that
\* has a day before it, the date is the day before T, whatever other relative
\* words the text contains.
C11_YesterdayWins ==
    /\ Answered /\ resp.mode # "failing"
    /\ Contains(Lower(resp.request.message), <<"y","e","s","t","e","r","d","a","y">>)
    /\ resp.request.ts.given /\ resp.request.ts.at # TS_MIN
    => /\ resp.success
       /\ resp.record.date.date = StrfDate(PrevDay(resp.request.ts.at))

\* C12: a request of the route that omits the timestamp is processed with the
\* time at which it is handled as the reference timestamp, and "yesterday"
\* resolves to the day before the day of the request.
C12_DefaultIsNow ==
    resp.kind = "http" /\ ~resp.request.ts.given /\ resp.success
    => /\ resp.used = resp.record.timestamp
       /\ resp.request.message = MSG_CAFE
          => resp.record.date.date = StrfDate(PrevDay(resp.record.timestamp))

\* C15: in "INR 1500 debited for UPI transfer ..." the keyword "inr" is followed
\* by the whitespace-delimited number 1500, which the keyword-context stage
\* (stage 1) collects with its full value and returns.
C15_FullNumberCollected ==
    Answered /\ resp.request.message = MSG_UPI /\ resp.success
    => /\ resp.record.amount.found
       /\ resp.record.amount.stage = 1
       /\ resp.record.amount.value = [int |-> <<"1","5","0","0">>, frac |-> <<>>, neg |-> FALSE]

\* C16: the balance of a record, if there is one, is at least 1 and at most
\* 10,000,000.
C16_BalanceInRange ==
    Answered /\ resp.success /\ resp.record.balance.found
    => /\ ~resp.record.balance.value.neg
       /\ OneToTenMillion(Nearest(resp.record.balance.value))

\* C17: in "Paid to your bank account card payment Swiggy" the five words after
\* "to" are blacklisted and the sixth is not: the generic scan returns "Swiggy".
C17_FilterThenTruncate ==
    Answered /\ resp.request.message = MSG_SIXTH /\ resp.success
    => /\ resp.record.merchant.found
       /\ resp.record.merchant.rule = "scan"
       /\ resp.record.merchant.name = <<"S","w","i","g","g","y">>

\* every (category, subcategory, confidence, rule) detect_category returns for
\* a text of ds, the analyzer working
VerdictsOf(ds) ==
    { detect_category(JoinSp(d), Analyze(mode, JoinSp(d))).value :
        d \in ds, mode \in NlpModes \ {"failing"} }

\* C13: the loan re-check (step 3) never returns: whenever a text passes the
\* gate and has a loan keyword together with a loan context phrase, which is
\* the re-check's own condition, the scan of step 2 has already returned it as
\* loan with 0.90, or 0.95 and the provider; no text is classified
\* ("loan", "generic", 0.90).
C13_RecheckNeverReturns ==
    verdict.done /\ ~verdict.raised
    => /\ verdict.result.rule \notin {"recheck", "recheck_provider"}
       /\ ~(verdict.result.category = "loan" /\ verdict.result.subcategory = <<"g","e","n","e","r","i","c">>)
       /\ verdict.result.rule # "gate" /\ LoanRecheck(Normalize(verdict.text)) # NoCategory
          => /\ verdict.result.category = "loan"
             /\ verdict.result.rule \in {"scan_provider", "scan_context"}
             /\ verdict.result.confidence \in {90, 95}

\* a text with a loan keyword and a loan context phrase has been classified
C13_Witness ==
    /\ verdict.done /\ ~verdict.raised
    /\ verdict.text = <<"e","m","i"," ","f","o","r"," ","l","o","a","n">>
    /\ LoanRecheck(Normalize(verdict.text)) = Category("loan", <<"g","e","n","e","r","i","c">>, 90, "recheck")
    /\ verdict.result = Category("loan", <<>>, 90, "scan_context")

\* C13 as stated: before a text is written, there is one to write that reaches
\* the loan re-check and is returned by it: the step is not dead code
C13_RecheckReachable ==
    draft = <<>>
    => \E v \in VerdictsOf(Drafts) : v.rule \in {"recheck", "recheck_provider"}

\* C14: the branches ("emi", "credit", 0.85) of the credit scan,
\* ("emi", "debit", 0.85) and ("debit", "atm", 0.80) of the debit scan are each
\* returned for some text: before a text is written, there is one to write
\* for each of them.
C14_BranchesReachable ==
    draft = <<>>
    => /\ \E v \in VerdictsOf(Drafts) : v.rule = "credit_emi"
       /\ \E v \in VerdictsOf(Drafts) : v.rule = "debit_emi"
       /\ \E v \in VerdictsOf(Drafts) : v.rule = "debit_atm"
====
